---- MODULE Spec2Model ----
(***************************************************************************)
(* A model of the CEA-608 closed caption decoder of lib/cc_decode.py and   *)
(* cc_decoder.py: the row classifier, the field demultiplexer and the      *)
(* per-channel caption state machines.                                     *)
(*                                                                         *)
(* Representation of Python values:                                        *)
(*   - a decoded label (`code`) is a tuple: <<>> is None, a control label  *)
(*     is <<prefix, name>> ("CC1 Resume Caption Loading" is                *)
(*     <<"CC1", "Resume Caption Loading">>), a preamble address label is   *)
(*     <<prefix, name, row>>, and the text of a printable pair is          *)
(*     <<"">> followed by its glyphs, one string per character;            *)
(*   - a glyph outside ASCII is written "U+XXXX";                          *)
(*   - a parity flag is "ok" (True), "bad" (False) or "none" (None);       *)
(*   - a byte that is None is NoByte.                                      *)
(***************************************************************************)
EXTENDS Integers, Sequences, FiniteSets, TLC

----------------------------------------------------------------------------
(* Values standing for Python's None *)
None == <<>>
NoByte == -1

Truthy(p) == p = "ok"

START_BIT_COUNT == 3

----------------------------------------------------------------------------
(* The character and control code tables.  Each table written as a tuple   *)
(* is indexed by (key - first key + 1).                                    *)

\* CC_TABLE for the keys 0x20..0x7F (key 0x00 maps to the empty string)
CC_TABLE ==
  <<
    " ", "!", "\"", "#", "$", "%", "&", "'",
    "(", ")", "U+00E1", "+", ",", "-", ".", "/",
    "0", "1", "2", "3", "4", "5", "6", "7",
    "8", "9", ":", ";", "<", "=", ">", "?",
    "@", "A", "B", "C", "D", "E", "F", "G",
    "H", "I", "J", "K", "L", "M", "N", "O",
    "P", "Q", "R", "S", "T", "U", "V", "W",
    "X", "Y", "Z", "[", "U+00E9", "]", "U+00ED", "U+00F3",
    "U+00FA", "a", "b", "c", "d", "e", "f", "g",
    "h", "i", "j", "k", "l", "m", "n", "o",
    "p", "q", "r", "s", "t", "u", "v", "w",
    "x", "y", "z", "U+00E7", "U+00F7", "U+00D1", "U+00F1", "U+25A0"
  >>

\* keys 0x30..0x3F
SPECIAL_CHARS_TABLE ==
  <<
    "U+00AE", "U+00B0", "U+00BD", "U+00BF", "U+2122", "U+00A2", "U+00A3", "U+266A",
    "U+00E0", " ", "U+00E8", "U+00E2", "U+00EA", "U+00EE", "U+00F4", "U+00FB"
  >>

\* keys 0x20..0x3F
EXTENDED_SPANISH_FRENCH ==
  <<
    "U+00C1", "U+00C9", "U+00D3", "U+00DA", "U+00DC", "U+00FC", "U+00B4", "U+00A1",
    "*", "'", "U+2500", "U+00A9", "U+2120", "U+2022", "U+201C", "U+201D",
    "U+00C0", "U+00C2", "U+00C7", "U+00C8", "U+00CA", "U+00CB", "U+00EB", "U+00CE",
    "U+00CF", "U+00EF", "U+00D4", "U+00D9", "U+00F9", "U+00DB", "U+00AB", "U+00BB"
  >>

\* keys 0x20..0x3F
EXTENDED_PORTUGUESE_GERMAN_DANISH ==
  <<
    "U+00C3", "U+00E3", "U+00CD", "U+00CC", "U+00EC", "U+00D2", "U+00F2", "U+00D5",
    "U+00F5", "{", "}", "\\", "^", "_", "|", "~",
    "U+00C4", "U+00E4", "U+00D6", "U+00F6", "U+00DF", "U+00A5", "U+00A4", "|",
    "U+00C5", "U+00E5", "U+00D8", "U+00F8", "U+250C", "U+2510", "U+2514", "U+2518"
  >>

\* keys (0x14, 0x20..0x2F); the keys (0x17, 0x21..0x23) are TabOffsetCodes
CONTROL_CODES ==
  <<
    "Resume Caption Loading", "Backspace",
    "Reserved (Alarm Off)", "Reserved (Alarm On)",
    "Delete to End Of Row", "Roll-Up Captions-2 Rows",
    "Roll-Up Captions-3 Rows", "Roll-Up Captions-4 Rows",
    "Flash On", "Resume Direct Captioning",
    "Text Restart", "Resume Text Display",
    "Erase Displayed Memory", "Carriage Return",
    "Erase Non-Displayed Memory", "End of Caption (flip memory)"
  >>

\* keys 0x20..0x2F
BACKGROUND_COLOR_CODES ==
  <<
    "Background White", "Background Semi-Transparent White",
    "Background Green", "Background Semi-Transparent White",
    "Background Blue", "Background Semi-Transparent Blue",
    "Background Cyan", "Background Semi-Transparent Cyan",
    "Background Red", "Background Semi-Transparent Red",
    "Background Yellow", "Background Semi-Transparent Yellow",
    "Background Magenta", "Background Semi-Transparent Magenta",
    "Background Black", "Background Semi-Transparent Black"
  >>

\* keys (0x11, 0x20..0x2F)
MID_ROW_CODES ==
  <<
    "Mid-row: White", "Mid-row: White Underline",
    "Mid-row: Green", "Mid-row: Green Underline",
    "Mid-row: Blue", "Mid-row: Blue Underline",
    "Mid-row: Cyan", "Mid-row: Cyan Underline",
    "Mid-row: Red", "Mid-row: Red Underline",
    "Mid-row: Yellow", "Mid-row: Yellow Underline",
    "Mid-row: Magenta", "Mid-row: Magenta Underline",
    "Mid-row: Italics", "Mid-row: Italics Underline"
  >>

\* keys 0x40..0x5F
PREAMBLE_ODD ==
  <<
    "Pre: White", "Pre: White Underline",
    "Pre: Green", "Pre: Green Underline",
    "Pre: Blue", "Pre: Blue Underline",
    "Pre: Cyan", "Pre: Cyan Underline",
    "Pre: Red", "Pre: Red Underline",
    "Pre: Yellow", "Pre: Yellow Underline",
    "Pre: Magenta", "Pre: Magenta Underline",
    "Pre: White Italics", "Pre: White Italics Underline",
    "Pre: Indent 0", "Pre: Indent 0 Underline",
    "Pre: Indent 4", "Pre: Indent 4 Underline",
    "Pre: Indent 8", "Pre: Indent 8 Underline",
    "Pre: Indent 12", "Pre: Indent 12 Underline",
    "Pre: Indent 16", "Pre: Indent 16 Underline",
    "Pre: Indent 20", "Pre: Indent 20 Underline",
    "Pre: Indent 24", "Pre: Indent 24 Underline",
    "Pre: Indent 28", "Pre: Indent 28 Underline"
  >>

\* keys (0x17, 0x21..0x23)
TabOffsetCodes == <<"Tab Offset 1", "Tab Offset 2", "Tab Offset 3">>

\* keys (0x17, 0x2D..0x2F) for CC1 and (0x1F, 0xAD), (0x1F, 0x2E), (0x1F, 0x2F) for CC2
ForegroundCodes == <<"Background Transparent", "Foreground Black ", "Foreground Black Underline">>

ROLL_UP_LEN(byte2) ==
  CASE byte2 = \h25 -> 2
    [] byte2 = \h26 -> 3
    [] byte2 = \h27 -> 4

CC1_PREAMBLE_COLS ==
  <<\h11, \h11, \h12, \h12, \h15, \h15, \h16, \h16, \h17, \h17, \h10, \h13, \h13, \h14, \h14>>

CC2_PREAMBLE_COLS ==
  <<\h19, \h19, \h1A, \h1A, \h1D, \h1D, \h1E, \h1E, \h1F, \h1F, \h18, \h1B, \h1B, \h1C, \h1C>>

\* COL_PREAMBLE: TRUE where the column takes EVEN_PREAMBLE, FALSE where PREAMBLE_ODD
COL_PREAMBLE ==
  <<FALSE, TRUE, FALSE, TRUE, FALSE, TRUE, FALSE, TRUE, FALSE, TRUE, FALSE, FALSE,
    TRUE, FALSE, TRUE>>

\* EVEN_PREAMBLE = {a + 0x20: b for (a, b) in PREAMBLE_ODD.items()}
EVEN_PREAMBLE(row_code) == PREAMBLE_ODD[(row_code - \h20) - \h40 + 1]

\* The columns of _cc_preamble_table whose key is (b1, b2), for one channel
PreambleColsOf(cols, b1, b2) ==
  {col \in 1..15 : /\ cols[col] = b1
                   /\ IF COL_PREAMBLE[col] THEN b2 \in \h60..\h7F ELSE b2 \in \h40..\h5F}

MaxOf(S) == CHOOSE m \in S : \A n \in S : n <= m

PreambleLabel(prefix, cols, b1, b2) ==
  LET col == MaxOf(PreambleColsOf(cols, b1, b2))
      text == IF COL_PREAMBLE[col] THEN EVEN_PREAMBLE(b2) ELSE PREAMBLE_ODD[b2 - \h40 + 1]
  IN  <<prefix, text, col>>

\* _cc_preamble_table()[(b1, b2)], None when the key is absent
cc_preamble_table(b1, b2) ==
  IF PreambleColsOf(CC2_PREAMBLE_COLS, b1, b2) # {}
    THEN PreambleLabel("CC2", CC2_PREAMBLE_COLS, b1, b2)
  ELSE IF PreambleColsOf(CC1_PREAMBLE_COLS, b1, b2) # {}
    THEN PreambleLabel("CC1", CC1_PREAMBLE_COLS, b1, b2)
  ELSE None

CC1_CONTROL_CODES(b1, b2) ==
  IF b1 = \h14 /\ b2 \in \h20..\h2F THEN <<"CC1", CONTROL_CODES[b2 - \h20 + 1]>>
  ELSE IF b1 = \h17 /\ b2 \in \h21..\h23 THEN <<"CC1", TabOffsetCodes[b2 - \h21 + 1]>>
  ELSE None

\* the first byte 0x14 becomes 0x1C, any other first byte (0x17) becomes 0x1F
CC2_CONTROL_CODES(b1, b2) ==
  IF b1 = \h1C /\ b2 \in \h20..\h2F THEN <<"CC2", CONTROL_CODES[b2 - \h20 + 1]>>
  ELSE IF b1 = \h1F /\ b2 \in \h21..\h23 THEN <<"CC2", TabOffsetCodes[b2 - \h21 + 1]>>
  ELSE None

CC1_MID_ROW_CODES(b1, b2) ==
  IF b1 = \h11 /\ b2 \in \h20..\h2F THEN <<"CC1", MID_ROW_CODES[b2 - \h20 + 1]>> ELSE None

CC2_MID_ROW_CODES(b1, b2) ==
  IF b1 = \h19 /\ b2 \in \h20..\h2F THEN <<"CC2", MID_ROW_CODES[b2 - \h20 + 1]>> ELSE None

\* The labels of the background tables carry no channel prefix: prefix "-"
CC1_BACKGROUND_CHARS(b1, b2) ==
  IF b1 = \h10 /\ b2 \in \h20..\h2F THEN <<"-", BACKGROUND_COLOR_CODES[b2 - \h20 + 1]>>
  ELSE IF b1 = \h17 /\ b2 \in \h2D..\h2F THEN <<"-", ForegroundCodes[b2 - \h2D + 1]>>
  ELSE None

CC2_BACKGROUND_CHARS(b1, b2) ==
  IF b1 = \h18 /\ b2 \in \h20..\h2F THEN <<"-", BACKGROUND_COLOR_CODES[b2 - \h20 + 1]>>
  ELSE IF b1 = \h1F /\ b2 = \hAD THEN <<"-", ForegroundCodes[1]>>
  ELSE IF b1 = \h1F /\ b2 \in \h2E..\h2F THEN <<"-", ForegroundCodes[b2 - \h2D + 1]>>
  ELSE None

\* ALL_CC_CONTROL_CODES.get((b1, b2)): a later update() wins
ALL_CC_CONTROL_CODES(b1, b2) ==
  IF CC2_BACKGROUND_CHARS(b1, b2) # None THEN CC2_BACKGROUND_CHARS(b1, b2)
  ELSE IF CC1_BACKGROUND_CHARS(b1, b2) # None THEN CC1_BACKGROUND_CHARS(b1, b2)
  ELSE IF CC2_MID_ROW_CODES(b1, b2) # None THEN CC2_MID_ROW_CODES(b1, b2)
  ELSE IF CC1_MID_ROW_CODES(b1, b2) # None THEN CC1_MID_ROW_CODES(b1, b2)
  ELSE IF CC2_CONTROL_CODES(b1, b2) # None THEN CC2_CONTROL_CODES(b1, b2)
  ELSE IF CC1_CONTROL_CODES(b1, b2) # None THEN CC1_CONTROL_CODES(b1, b2)
  ELSE cc_preamble_table(b1, b2)

ALL_SPECIAL_CHARS(b1, b2) ==
  IF b1 \in {\h11, \h19} /\ b2 \in \h30..\h3F THEN <<"", SPECIAL_CHARS_TABLE[b2 - \h30 + 1]>>
  ELSE IF b1 \in {\h12, \h1A} /\ b2 \in \h20..\h3F
    THEN <<"", EXTENDED_SPANISH_FRENCH[b2 - \h20 + 1]>>
  ELSE IF b1 \in {\h13, \h1B} /\ b2 \in \h20..\h3F
    THEN <<"", EXTENDED_PORTUGUESE_GERMAN_DANISH[b2 - \h20 + 1]>>
  ELSE None

is_control(byte1, byte2) == ALL_CC_CONTROL_CODES(byte1, byte2) # None

HexDigits ==
  <<"0", "1", "2", "3", "4", "5", "6", "7", "8", "9", "a", "b", "c", "d", "e", "f">>

\* '%02x' % b
Hex02(b) == HexDigits[(b \div 16) + 1] \o HexDigits[(b % 16) + 1]

\* CC_TABLE.get(b, '?b1(%02x)' % b if default_unicode else ""), as a tuple of glyphs
CC_TABLE_get(b, which, default_unicode) ==
  IF b = 0 THEN <<>>
  ELSE IF b \in \h20..\h7F THEN <<CC_TABLE[b - \h20 + 1]>>
  ELSE IF default_unicode THEN <<"?" \o which \o "(" \o Hex02(b) \o ")">>
  ELSE <<>>

decode_byte_pair(control, byte1, byte2, default_unicode) ==
  IF control THEN ALL_CC_CONTROL_CODES(byte1, byte2)
  ELSE IF ALL_SPECIAL_CHARS(byte1, byte2) # None THEN ALL_SPECIAL_CHARS(byte1, byte2)
  ELSE <<"">> \o CC_TABLE_get(byte1, "b1", default_unicode)
              \o CC_TABLE_get(byte2, "b2", default_unicode)

----------------------------------------------------------------------------
(* The bit slicer.  A scanline the synchronizer matched (sync_to_preamble  *)
(* returned a match whose score exceeds 0.7) is the record                 *)
(*   [match |-> TRUE, bit |-> <<19 cells>>, std |-> <<19 cells>>]          *)
(* where bit[k+1] is get_bit(k)[0] and std[k+1] tells how get_bit(k)[1]    *)
(* compares with min_std_dev_for_correction: "lo" (<), "eq" (=), "hi" (>). *)
(* A scanline without such a match is [match |-> FALSE].                   *)

get_bit(bit_index, line) == <<line.bit[bit_index + 1], line.std[bit_index + 1]>>

Flip(bit) == IF bit = 0 THEN 1 ELSE 0

\* One iteration of the loop `for i in range(2)` of decode_bytes:
\* <<byte_data[i], byte_parity[i]>>
decode_byte(line, i) ==
  LET b_data_start == START_BIT_COUNT + i * 8
      b_parity_idx == b_data_start + 7
      b_bits == [b_idx \in 0..6 |-> get_bit(b_idx + b_data_start, line)[1]]
      b_stds == [b_idx \in 0..6 |-> get_bit(b_idx + b_data_start, line)[2]]
      errors == {b_idx \in 0..6 : b_stds[b_idx] = "hi"}
      b_error_count == Cardinality(errors)
      sum == b_bits[0] + b_bits[1] + b_bits[2] + b_bits[3] + b_bits[4] + b_bits[5] + b_bits[6]
      b_parity_calculated == (1 + sum) % 2
      b_parity_bit == get_bit(b_parity_idx, line)[1]
      b_parity_bit_std == get_bit(b_parity_idx, line)[2]
      correct == /\ b_error_count = 1
                 /\ b_parity_bit # b_parity_calculated
                 /\ b_parity_bit_std = "lo"
      b_worst_error_idx == CHOOSE b_idx \in errors : TRUE
      bits == IF correct
                THEN [b_bits EXCEPT ![b_worst_error_idx] = Flip(b_bits[b_worst_error_idx])]
                ELSE b_bits
      parity == IF correct THEN b_parity_bit ELSE b_parity_calculated
      byte == bits[0] + bits[1] * 2 + bits[2] * 4 + bits[3] * 8 + bits[4] * 16
              + bits[5] * 32 + bits[6] * 64
  IN  <<byte, IF b_parity_bit = parity THEN "ok" ELSE "bad">>

\* <<byte1, byte1_parity, byte2, byte2_parity>>, all None when the start bits fail
decode_bytes(line) ==
  IF \/ get_bit(0, line)[1] # 0
     \/ get_bit(1, line)[1] # 0
     \/ get_bit(2, line)[1] # 1
    THEN <<NoByte, "none", NoByte, "none">>
    ELSE <<decode_byte(line, 0)[1], decode_byte(line, 0)[2],
           decode_byte(line, 1)[1], decode_byte(line, 1)[2]>>

\* field_0_idx = None
NoIdx == -1

RECURSIVE find_rows_from(_, _, _, _, _, _)
\* The loop of find_and_decode_rows from row_idx on.  `if field_0_idx` is
\* false for None and for 0.
find_rows_from(img, start_line, search_lines, row_idx, rows_found, field_0_idx) ==
  IF row_idx >= search_lines THEN rows_found
  ELSE IF field_0_idx # NoIdx /\ field_0_idx # 0 /\ field_0_idx + 1 < row_idx THEN rows_found
  ELSE LET start_idx == row_idx + start_line
           preamble_match == img[start_idx + 1]
       IN  IF preamble_match.match
             THEN LET d == decode_bytes(preamble_match)
                  IN  find_rows_from(img, start_line, search_lines, row_idx + 1,
                        Append(rows_found, <<start_idx, d[1], d[2], d[3], d[4]>>),
                        IF field_0_idx = NoIdx THEN row_idx ELSE field_0_idx)
             ELSE find_rows_from(img, start_line, search_lines, row_idx + 1,
                                 rows_found, field_0_idx)

find_and_decode_rows(img, start_line, search_lines) ==
  find_rows_from(img, start_line, search_lines, 0, <<>>, NoIdx)

\* A faulty classifier that still takes a pair whose byte1 parity failed for a
\* control pair
classify_row_keeping_control(found) ==
  LET control == is_control(found[2], found[4])
      b2x == IF ~Truthy(found[5]) THEN \h7F ELSE found[4]
      b1x == IF ~Truthy(found[3]) THEN \h7F ELSE found[2]
  IN  IF ~Truthy(found[5]) /\ control THEN <<>>
      ELSE << [row_num |-> found[1], code |-> decode_byte_pair(control, b1x, b2x, TRUE),
               control |-> control, byte1 |-> b1x, byte1_parity |-> found[3],
               byte2 |-> b2x, byte2_parity |-> found[5]] >>

\* The body of the loop of extract_closed_caption_bytes for one found row:
\* the rows it appends to decoded_rows (none or one)
classify_row(found) ==
  LET row_num == found[1]
      b1 == found[2]
      b1_parity == found[3]
      b2 == found[4]
      b2_parity == found[5]
      control == is_control(b1, b2)
      dropped == ~Truthy(b2_parity) /\ control
      b2x == IF ~Truthy(b2_parity) THEN \h7F ELSE b2
      controlx == IF ~Truthy(b1_parity) THEN FALSE ELSE control
      b1x == IF ~Truthy(b1_parity) THEN \h7F ELSE b1
  IN  IF dropped THEN <<>>
      ELSE << [row_num |-> row_num, code |-> decode_byte_pair(controlx, b1x, b2x, TRUE),
               control |-> controlx, byte1 |-> b1x, byte1_parity |-> b1_parity,
               byte2 |-> b2x, byte2_parity |-> b2_parity] >>

RECURSIVE classify_rows(_)
classify_rows(found_rows) ==
  IF found_rows = <<>> THEN <<>>
  ELSE classify_row(Head(found_rows)) \o classify_rows(Tail(found_rows))

extract_closed_caption_bytes(img, start_line, search_lines) ==
  classify_rows(find_and_decode_rows(img, start_line, search_lines))

----------------------------------------------------------------------------
(* Rows.  A row of decoded_rows is the record                              *)
(*   [row_num, code, control, byte1, byte1_parity, byte2, byte2_parity].   *)

\* The name of a control label without its channel prefix ("" for text)
Name(code) == IF Len(code) >= 2 /\ code[1] # "" THEN code[2] ELSE ""

\* code[:3] when it is a key of CC_CHANNEL_TO_FIELD, "" otherwise
ChannelPrefix(code) == IF Len(code) >= 2 /\ code[1] \in {"CC1", "CC2"} THEN code[1] ELSE ""

\* 'Roll-Up Captions' in code
IsRollUpCaptions(code) ==
  Name(code) \in {"Roll-Up Captions-2 Rows", "Roll-Up Captions-3 Rows", "Roll-Up Captions-4 Rows"}

\* "Indent" in code
HasIndent(code) == \E k \in 17..32 : Name(code) = PREAMBLE_ODD[k]

\* int(re.search(r'Indent (?P<indent_offset>\d+)', code)["indent_offset"])
IndentOffset(code) ==
  LET k == CHOOSE k \in 17..32 : Name(code) = PREAMBLE_ODD[k] IN ((k - 17) \div 2) * 4

CC_CHANNEL_TO_FIELD(cc_track) ==
  CASE cc_track = "CC1" -> 0
    [] cc_track = "CC2" -> 0
    [] cc_track = "CC3" -> 1
    [] cc_track = "CC4" -> 1

----------------------------------------------------------------------------
(* The caption tracks.  A track object is a record; `cls` names its class  *)
(* ("scc": SCCCaptionTrack, "text": TextCaptionTrack, "srt":               *)
(* SRTCaptionTrack, "html": HTMLCaptionTrack) and decides which override   *)
(* of a method runs.  `out` is what the last add_data call wrote to the    *)
(* track's output files; `f` and `f_text` tell whether the caption and the *)
(* text file are open (an output file name is always given).               *)
(* roll_up_length is 0 while the attribute is not yet set.  A cell of      *)
(* text_buffer is <<>> (None) or <<row>>.                                  *)

TextBufferLen == 32

NoChar == "<None>"

EmptyTextBuffer == [i \in 0..(TextBufferLen - 1) |-> <<>>]

\* CaptionTrack.__init__ with the __init__ of the subclass named by cls
NewTrack(cls, cc_track) ==
  [ cls |-> cls, cc_track |-> cc_track, field_number |-> CC_CHANNEL_TO_FIELD(cc_track),
    prev_code |-> None, mode |-> "pop_on",
    buffer_on_screen |-> <<>>, buffer_off_screen |-> <<>>, roll_up_buffer |-> <<>>,
    roll_up_length |-> 0,
    text_buffer |-> EmptyTextBuffer, text_cursor |-> 0,
    f |-> FALSE, f_text |-> FALSE,
    prev_char |-> NoChar, previous_frames |-> 0,
    subtitle_count |-> 1, subtitle_start_frame |-> 0, subtitle_end_frame |-> 0,
    text_count |-> 1, text_start_frame |-> 0, text_end_frame |-> 0,
    out |-> <<>> ]

Emit(t, event) == [t EXCEPT !.out = Append(@, event)]

\* CaptionTrack.open; SCCCaptionTrack.open also writes the file header
open(t) ==
  LET t1 == [t EXCEPT !.f = TRUE]
  IN  IF t.cls = "scc" THEN Emit(t1, [sink |-> "caption", kind |-> "header"]) ELSE t1

\* CaptionTrack.open_text; HTMLCaptionTrack.open_text also writes the page header
open_text(t) ==
  LET t1 == [t EXCEPT !.f_text = TRUE]
  IN  IF t.cls = "html" THEN Emit(t1, [sink |-> "text", kind |-> "header"]) ELSE t1

\* TextCaptionTrack.dedupe_bad_data_from_text: <<prev_char afterwards, returned text>>
dedupe_bad_data_from_text(prev_char, code) ==
  IF prev_char = NoChar THEN <<code, <<code>> >>
  ELSE IF prev_char = "U+25A0" /\ code = "U+25A0" THEN <<prev_char, <<>> >>
  ELSE <<code, <<code>> >>

\* current_row = None in get_caption_text
NoRow == -1

\* space_character * n
Spaces(n) == [i \in 1..n |-> " "]

\* TextCaptionTrack.handle_row: <<caption_text, current_row>>.  Only the labels
\* of the preamble address codes end with "row N".
handle_row(code, caption_text, current_row) ==
  IF Len(code) = 3
    THEN << IF current_row # NoRow /\ current_row < code[3]
              THEN Append(caption_text, "\n") ELSE caption_text,
            code[3] >>
    ELSE <<caption_text, current_row>>

\* TextCaptionTrack.handle_cr
handle_cr(code, caption_text) ==
  IF Name(code) = "Carriage Return" THEN Append(caption_text, "\n") ELSE caption_text

\* TextCaptionTrack.handle_bs
handle_bs(code, caption_text) ==
  IF Name(code) = "Backspace" /\ caption_text # <<>>
    THEN SubSeq(caption_text, 1, Len(caption_text) - 1)
    ELSE caption_text

\* TextCaptionTrack.handle_tab
handle_tab(code, caption_text) ==
  IF \E k \in 1..3 : Name(code) = TabOffsetCodes[k]
    THEN LET offset == CHOOSE k \in 1..3 : Name(code) = TabOffsetCodes[k]
             tab == IF 32 - Len(caption_text) > offset THEN 32 - Len(caption_text)
                    ELSE offset
         IN  caption_text \o Spaces(tab)
    ELSE caption_text

\* TextCaptionTrack.handle_indent
handle_indent(code, caption_text) ==
  IF HasIndent(code) THEN caption_text \o Spaces(IndentOffset(code)) ELSE caption_text

\* TextCaptionTrack.handle_style
handle_style(code, caption_text) == caption_text

\* The handlers get_caption_text applies to a control row whose parities are
\* good: <<caption_text, current_row>>
handle_control(code, caption_text, current_row) ==
  CHOOSE result \in
    { <<handle_style(code, handle_indent(code, handle_tab(code,
          handle_bs(code, handle_cr(code, r[1]))))), r[2]>>
      : r \in {handle_row(code, caption_text, current_row)} } : TRUE

RECURSIVE handle_chars(_, _, _, _)
\* The loop `for char in str(code)` of handle_character:
\* [prev_char, has_writable, caption_text] after the glyphs `chars`
handle_chars(prev_char, has_writable, caption_text, chars) ==
  IF chars = <<>>
    THEN [prev_char |-> prev_char, has_writable |-> has_writable,
          caption_text |-> caption_text]
  ELSE CHOOSE result \in
         { handle_chars(d[1], has_writable \/ Head(chars) # " ", caption_text \o d[2],
                        Tail(chars))
           : d \in {dedupe_bad_data_from_text(prev_char, Head(chars))} } : TRUE

\* TextCaptionTrack.handle_character: [prev_char, has_writable, caption_text]
handle_character(prev_char, caption_text, byte1, byte2) ==
  CHOOSE result \in
    { handle_chars(prev_char, FALSE, caption_text, Tail(code))
      : code \in {decode_byte_pair(FALSE, byte1, byte2, FALSE)} } : TRUE

RECURSIVE caption_text_from(_, _, _, _, _)
\* The loop of TextCaptionTrack.get_caption_text over `data` (a sequence of
\* cells, each <<>> or <<row>>): [prev_char, has_writable, caption_text] at its end
caption_text_from(prev_char, has_writable, current_row, caption_text, data) ==
  IF data = <<>>
    THEN [prev_char |-> prev_char, has_writable |-> has_writable,
          caption_text |-> caption_text]
  ELSE IF Head(data) = <<>>
    THEN caption_text_from(prev_char, has_writable, current_row, caption_text, Tail(data))
  ELSE LET decoded_row == Head(data)[1]
       IN  IF decoded_row.control
             THEN IF Truthy(decoded_row.byte1_parity) /\ Truthy(decoded_row.byte2_parity)
                    THEN CHOOSE result \in
                           { caption_text_from(prev_char, has_writable, r[2], r[1],
                                               Tail(data))
                             : r \in {handle_control(decoded_row.code, caption_text,
                                                     current_row)} } : TRUE
                    ELSE caption_text_from(prev_char, has_writable, current_row,
                                           caption_text, Tail(data))
             ELSE CHOOSE result \in
                    { caption_text_from(r.prev_char, r.has_writable, current_row,
                                        r.caption_text, Tail(data))
                      : r \in {handle_character(prev_char, caption_text,
                                                decoded_row.byte1,
                                                decoded_row.byte2)} } : TRUE

\* TextCaptionTrack.get_caption_text: [prev_char, has_writable, caption_text]
get_caption_text(t, data) ==
  CHOOSE result \in
    { caption_text_from(t.prev_char, FALSE, NoRow, <<>>, rows) : rows \in {data} } : TRUE

\* A list of rows as a list of cells
Cells(rows) == [i \in 1..Len(rows) |-> <<rows[i]>>]

\* self._text_buffer[:self._text_cursor]
TextSlice(t) == [i \in 1..t.text_cursor |-> t.text_buffer[i - 1]]

\* CaptionTrack.write_caption
CaptionTrack_write_caption(t) == IF ~t.f THEN open(t) ELSE t

\* CaptionTrack.write_text
CaptionTrack_write_text(t) == IF ~t.f_text THEN open_text(t) ELSE t

\* A faulty table that adds no parity bit
NO_PARITY_TO_NO_PARITY == [b \in 1..128 |-> b - 1]

\* NO_PARITY_TO_ODD_PARITY[b] of the source is NO_PARITY_TO_ODD_PARITY[b + 1] here
NO_PARITY_TO_ODD_PARITY ==
  << \h80, \h01, \h02, \h83, \h04, \h85, \h86, \h07,
     \h08, \h89, \h8A, \h0B, \h8C, \h0D, \h0E, \h8F,
     \h10, \h91, \h92, \h13, \h94, \h15, \h16, \h97,
     \h98, \h19, \h1A, \h9B, \h1C, \h9D, \h9E, \h1F,
     \h20, \hA1, \hA2, \h23, \hA4, \h25, \h26, \hA7,
     \hA8, \h29, \h2A, \hAB, \h2C, \hAD, \hAE, \h2F,
     \hB0, \h31, \h32, \hB3, \h34, \hB5, \hB6, \h37,
     \h38, \hB9, \hBA, \h3B, \hBC, \h3D, \h3E, \hBF,
     \h40, \hC1, \hC2, \h43, \hC4, \h45, \h46, \hC7,
     \hC8, \h49, \h4A, \hCB, \h4C, \hCD, \hCE, \h4F,
     \hD0, \h51, \h52, \hD3, \h54, \hD5, \hD6, \h57,
     \h58, \hD9, \hDA, \h5B, \hDC, \h5D, \h5E, \hDF,
     \hE0, \h61, \h62, \hE3, \h64, \hE5, \hE6, \h67,
     \h68, \hE9, \hEA, \h6B, \hEC, \h6D, \h6E, \hEF,
     \h70, \hF1, \hF2, \h73, \hF4, \h75, \h76, \hF7,
     \hF8, \h79, \h7A, \hFB, \h7C, \hFD, \hFE, \h7F >>

RECURSIVE hex_x(_)
\* '%x' % n, as a tuple of characters: no leading zero, no fixed width
hex_x(n) ==
  IF n < 16 THEN <<HexDigits[n + 1]>>
  ELSE hex_x(n \div 16) \o <<HexDigits[(n % 16) + 1]>>

\* SCCCaptionTrack._get_subtitle_data
SCC_get_subtitle_data(data) ==
  hex_x(NO_PARITY_TO_ODD_PARITY[data.byte1 + 1])
    \o hex_x(NO_PARITY_TO_ODD_PARITY[data.byte2 + 1]) \o <<" ">>

RECURSIVE scc_join(_)
\* "".join(scc_data) for scc_data = [self._get_subtitle_data(n) for n in data]
scc_join(data) ==
  IF data = <<>> THEN <<>>
  ELSE SCC_get_subtitle_data(Head(data)[1]) \o scc_join(Tail(data))

\* SCCCaptionTrack._write
SCC_write(t, sink, data, frames) ==
  Emit(t, [sink |-> sink, kind |-> "scc", frames |-> frames, data |-> data,
           text |-> scc_join(data)])

DecDigits == <<"0", "1", "2", "3", "4", "5", "6", "7", "8", "9">>

RECURSIVE Dec(_, _)
\* '%0<width>d' % n for n >= 0
Dec(n, width) ==
  IF n < 10 /\ width <= 1 THEN DecDigits[n + 1]
  ELSE Dec(n \div 10, width - 1) \o DecDigits[(n % 10) + 1]

\* A faulty _get_timecode that takes 30 frames for a second
SRT_get_timecode_30fps(frames) ==
  LET whole == frames \div 30
      milliseconds == ((frames * 1000) \div 30) % 1000
      hours == whole \div 3600
      minutes == (whole - 3600 * hours) \div 60
      seconds_disp == whole - (minutes * 60 + hours * 3600)
  IN  Dec(hours, 2) \o ":" \o Dec(minutes, 2) \o ":" \o Dec(seconds_disp, 2)
        \o "," \o Dec(milliseconds, 3)

\* SRTCaptionTrack._get_timecode, fps = 29.97.  The divisions are exact here
\* where the source divides floating-point numbers.
SRT_get_timecode(frames) ==
  LET whole == (frames * 100) \div 2997
      milliseconds == ((frames * 100000) \div 2997) % 1000
      hours == whole \div 3600
      minutes == (whole - 3600 * hours) \div 60
      seconds_disp == whole - (minutes * 60 + hours * 3600)
  IN  Dec(hours, 2) \o ":" \o Dec(minutes, 2) \o ":" \o Dec(seconds_disp, 2)
        \o "," \o Dec(milliseconds, 3)

\* SRTCaptionTrack._write: the entry number, then the line of the two timecodes
\* and the text
SRT_write(t, sink, start_frame, end_frame, count, caption_text) ==
  Emit(t, [sink |-> sink, kind |-> "srt", start_frame |-> start_frame,
           end_frame |-> end_frame, count |-> count,
           start |-> SRT_get_timecode(start_frame),
           end |-> SRT_get_timecode(end_frame),
           text |-> caption_text])

RECURSIVE rstrip(_)
\* caption_text.rstrip('\n')
rstrip(caption_text) ==
  IF caption_text # <<>> /\ caption_text[Len(caption_text)] = "\n"
    THEN rstrip(SubSeq(caption_text, 1, Len(caption_text) - 1))
    ELSE caption_text

\* TextCaptionTrack.write_text (cls "text"; also reached as super() from "srt")
Text_write_text(t, data, frames) ==
  CHOOSE result \in
    { LET t1 == [t EXCEPT !.prev_char = r.prev_char]
      IN  IF r.has_writable
            THEN Emit(CaptionTrack_write_text(t1),
                      [sink |-> "text", kind |-> "text", data |-> data,
                       text |-> rstrip(r.caption_text)])
            ELSE t1
      : r \in {get_caption_text(t, data)} } : TRUE

\* HTMLCaptionTrack.write_text
HTML_write_text(t, data, frames) ==
  CHOOSE result \in
    { LET t1 == [t EXCEPT !.prev_char = r.prev_char]
      IN  IF r.has_writable
            THEN Emit(CaptionTrack_write_text(t1),
                      [sink |-> "text", kind |-> "html", data |-> data])
            ELSE t1
      : r \in {get_caption_text(t, data)} } : TRUE

\* SRTCaptionTrack.write_text
SRT_write_text(t, data, frames) ==
  CHOOSE result \in
    { LET t2 == [t EXCEPT !.text_end_frame = frames, !.prev_char = r.prev_char]
      IN  IF r.has_writable
            THEN CHOOSE written \in
                   { [SRT_write(t3, "text", t3.text_start_frame, t3.text_end_frame,
                                t3.text_count, r.caption_text)
                        EXCEPT !.text_start_frame = frames, !.text_count = @ + 1]
                     : t3 \in {Text_write_text(t2, data, frames)} } : TRUE
            ELSE t2
      : r \in {get_caption_text(t, data)} } : TRUE

\* SCCCaptionTrack.write_text
SCC_write_text(t, data, frames) == SCC_write(CaptionTrack_write_text(t), "text", data, frames)

\* self.write_text(data, frames), data a list of cells
write_text(t, data, frames) ==
  CHOOSE result \in
    { CASE self.cls = "scc" -> SCC_write_text(self, rows, frames)
        [] self.cls = "text" -> Text_write_text(self, rows, frames)
        [] self.cls = "srt" -> SRT_write_text(self, rows, frames)
        [] self.cls = "html" -> HTML_write_text(self, rows, frames)
      : self \in {t}, rows \in {data} } : TRUE

\* SCCCaptionTrack.write_caption
SCC_write_caption(t, data, frames) ==
  SCC_write(CaptionTrack_write_caption(t), "caption", data, frames)

\* SRTCaptionTrack.write_caption without `self.subtitle_count += 1`
SRT_write_caption_same_count(t, data, frames) ==
  CHOOSE result \in
    { [SRT_write(t2, "caption", t2.subtitle_start_frame, t2.subtitle_end_frame,
                 t2.subtitle_count, r.caption_text)
         EXCEPT !.prev_char = r.prev_char]
      : r \in {get_caption_text(t, data)},
        t2 \in { [CaptionTrack_write_caption(t) EXCEPT !.subtitle_end_frame = frames] }
    } : TRUE

\* SRTCaptionTrack.write_caption
SRT_write_caption(t, data, frames) ==
  CHOOSE result \in
    { [SRT_write(t2, "caption", t2.subtitle_start_frame, t2.subtitle_end_frame,
                 t2.subtitle_count, r.caption_text)
         EXCEPT !.subtitle_count = @ + 1, !.prev_char = r.prev_char]
      : r \in {get_caption_text(t, data)},
        t2 \in { [CaptionTrack_write_caption(t) EXCEPT !.subtitle_end_frame = frames] }
    } : TRUE

\* self.write_caption(data, frames), data a list of cells.  Only the
\* SCC and the SRT track call it.
write_caption(t, data, frames) ==
  CHOOSE result \in
    { CASE self.cls = "scc" -> SCC_write_caption(self, rows, frames)
        [] self.cls = "srt" -> SRT_write_caption(self, rows, frames)
        [] OTHER -> CaptionTrack_write_caption(self)
      : self \in {t}, rows \in {data} } : TRUE

\* CaptionTrack.clear_text
clear_text(t) == [t EXCEPT !.text_buffer = EmptyTextBuffer, !.text_cursor = 0]

\* A faulty add_text whose cursor does not stop at the last cell
CaptionTrack_add_text_unbounded(t, data, frames) ==
  [t EXCEPT !.text_buffer[t.text_cursor] = <<data>>,
            !.text_cursor = t.text_cursor + 1]

\* CaptionTrack.add_text
CaptionTrack_add_text(t, data, frames) ==
  [t EXCEPT !.text_buffer[t.text_cursor] = <<data>>,
            !.text_cursor = IF t.text_cursor + 1 < TextBufferLen - 1
                              THEN t.text_cursor + 1 ELSE TextBufferLen - 1]

\* SCCCaptionTrack.add_text
SCC_add_text(t, data, frames) ==
  LET t1 == CaptionTrack_add_text(t, data, frames)
  IN  IF Name(data.code) = "Carriage Return"
        THEN clear_text(SCC_write(t1, "text", TextSlice(t1), frames))
        ELSE t1

\* TextCaptionTrack.add_text; the text and the HTML track pass their own write_text
TextCaptionTrack_add_text(t, data, frames) ==
  LET t1 == IF HasIndent(data.code) THEN [t EXCEPT !.text_cursor = IndentOffset(data.code)]
            ELSE t
      t2 == IF Name(data.code) = "Carriage Return" /\ data.code = t1.prev_code
              THEN clear_text(write_text(t1, TextSlice(t1), frames))
              ELSE CaptionTrack_add_text(t1, data, frames)
  IN  [t2 EXCEPT !.previous_frames = frames]

\* SRTCaptionTrack.add_text
SRT_add_text(t, data, frames) ==
  IF Name(data.code) = "Carriage Return" /\ data.code = t.prev_code
    THEN clear_text(SRT_write_text(t, TextSlice(t), frames))
    ELSE TextCaptionTrack_add_text(t, data, frames)

add_text(t, data, frames) ==
  CASE t.cls = "scc" -> SCC_add_text(t, data, frames)
    [] t.cls = "srt" -> SRT_add_text(t, data, frames)
    [] OTHER -> TextCaptionTrack_add_text(t, data, frames)

\* add_on_screen of the SCC and the SRT track; `pass` in the text and HTML track
add_on_screen(t, data, frames) ==
  IF t.cls \in {"scc", "srt"}
    THEN LET t1 == [t EXCEPT !.buffer_on_screen = Append(@, data)]
         IN  write_caption(t1, Cells(t1.buffer_on_screen), frames)
    ELSE t

\* A faulty add_off_screen that builds the caption in the displayed buffer
add_off_screen_displayed(t, data) ==
  IF t.cls \in {"scc", "srt"} THEN [t EXCEPT !.buffer_on_screen = Append(@, data)] ELSE t

\* add_off_screen of the SCC and the SRT track; `pass` in the text and HTML track
add_off_screen(t, data) ==
  IF t.cls \in {"scc", "srt"} THEN [t EXCEPT !.buffer_off_screen = Append(@, data)] ELSE t

\* add_on_screen_roll_up: the SCC track writes the row, the SRT track stores it
\* (its roll-up trimming is commented out), the text and HTML track `pass`
add_on_screen_roll_up(t, data, frames) ==
  CASE t.cls = "scc" -> write_caption(t, Cells(<<data>>), frames)
    [] t.cls = "srt" -> [t EXCEPT !.roll_up_buffer = Append(@, data)]
    [] OTHER -> t

\* CaptionTrack.global_resume_loading
CaptionTrack_global_resume_loading(t, data, frames) == [t EXCEPT !.mode = "pop_on"]

global_resume_loading(t, data, frames) ==
  LET t1 == CaptionTrack_global_resume_loading(t, data, frames)
  IN  IF t.cls = "scc" THEN [t1 EXCEPT !.buffer_off_screen = Append(@, data)] ELSE t1

\* CaptionTrack.global_resume_direct
CaptionTrack_global_resume_direct(t, data, frames) == [t EXCEPT !.mode = "paint_on"]

global_resume_direct(t, data, frames) ==
  LET t1 == CaptionTrack_global_resume_direct(t, data, frames)
  IN  CASE t.cls = "scc" ->
             LET t2 == [t1 EXCEPT !.buffer_on_screen = Append(@, data)]
             IN  write_caption(t2, Cells(t2.buffer_on_screen), frames)
        [] t.cls = "srt" -> [t1 EXCEPT !.subtitle_start_frame = frames, !.roll_up_buffer = <<>>]
        [] OTHER -> t1

\* CaptionTrack.global_erase_non_displayed_memory
global_erase_non_displayed_memory(t, data, frames) == [t EXCEPT !.buffer_off_screen = <<>>]

\* A faulty global_erase_displayed_memory that does not look at the mode
global_erase_displayed_memory_any_mode(t, data, frames) ==
  [t EXCEPT !.buffer_on_screen = <<>>]

\* CaptionTrack.global_erase_displayed_memory
CaptionTrack_global_erase_displayed_memory(t, data, frames) ==
  IF t.mode = "roll_up" THEN [t EXCEPT !.roll_up_buffer = <<>>]
  ELSE [t EXCEPT !.buffer_on_screen = <<>>]

\* SCCCaptionTrack.global_erase_displayed_memory
SCC_global_erase_displayed_memory(t, data, frames) ==
  write_caption(CaptionTrack_global_erase_displayed_memory(t, data, frames),
                Cells(<<data>>), frames)

\* SRTCaptionTrack.global_erase_displayed_memory
SRT_global_erase_displayed_memory(t, data, frames) ==
  CHOOSE result \in
    { CaptionTrack_global_erase_displayed_memory(t1, data, frames)
      : t1 \in { IF t.mode = "roll_up"
                   THEN IF Len(t.roll_up_buffer) > 0
                          THEN write_caption(t, Cells(t.roll_up_buffer), frames) ELSE t
                   ELSE IF Len(t.buffer_on_screen) > 0
                          THEN write_caption(t, Cells(t.buffer_on_screen), frames) ELSE t }
    } : TRUE

global_erase_displayed_memory(t, data, frames) ==
  CHOOSE result \in
    { CASE self.cls = "scc" -> SCC_global_erase_displayed_memory(self, data, frames)
        [] self.cls = "srt" -> SRT_global_erase_displayed_memory(self, data, frames)
        [] OTHER -> CaptionTrack_global_erase_displayed_memory(self, data, frames)
      : self \in {t} } : TRUE

\* CaptionTrack.global_start_roll_up
CaptionTrack_global_start_roll_up(t, data, frames) ==
  CHOOSE result \in
    { global_erase_non_displayed_memory(t2, data, frames)
      : t2 \in { global_erase_displayed_memory(
                   [t EXCEPT !.mode = "roll_up",
                             !.roll_up_length = ROLL_UP_LEN(data.byte2)],
                   data, frames) } } : TRUE

global_start_roll_up(t, data, frames) ==
  CHOOSE result \in
    { CASE t.cls = "scc" -> write_caption(t1, Cells(<<data>>), frames)
        [] t.cls = "srt" -> [t1 EXCEPT !.subtitle_start_frame = frames]
        [] OTHER -> t1
      : t1 \in {CaptionTrack_global_start_roll_up(t, data, frames)} } : TRUE

\* CaptionTrack.global_start_text_mode
CaptionTrack_global_start_text_mode(t, data, frames) ==
  LET t1 == [t EXCEPT !.mode = "text"]
  IN  IF ~t1.f_text THEN open_text(t1) ELSE t1

global_start_text_mode(t, data, frames) ==
  CHOOSE result \in
    { CASE t.cls = "scc" -> SCC_write_text(t1, Cells(<<data>>), frames)
        [] t.cls = "srt" ->
             IF t1.text_start_frame = 0 THEN [t1 EXCEPT !.text_start_frame = frames] ELSE t1
        [] OTHER -> t1
      : t1 \in {CaptionTrack_global_start_text_mode(t, data, frames)} } : TRUE

\* global_text_reset of the four track classes
global_text_reset(t, data, frames) ==
  CHOOSE result \in
    { IF self.cls = "scc" THEN clear_text(SCC_add_text(self, data, frames))
      ELSE clear_text(self)
      : self \in {t} } : TRUE

\* A faulty global_flip_buffers that also returns to pop_on
global_flip_buffers_to_pop_on(t, data, frames) ==
  [t EXCEPT !.buffer_off_screen = t.buffer_on_screen,
            !.buffer_on_screen = t.buffer_off_screen,
            !.mode = "pop_on"]

\* A faulty global_flip_buffers that loses the displayed buffer
global_flip_buffers_copy(t, data, frames) ==
  [t EXCEPT !.buffer_on_screen = t.buffer_off_screen]

\* CaptionTrack.global_flip_buffers
CaptionTrack_global_flip_buffers(t, data, frames) ==
  [t EXCEPT !.buffer_off_screen = t.buffer_on_screen,
            !.buffer_on_screen = t.buffer_off_screen]

global_flip_buffers(t, data, frames) ==
  LET t1 == CaptionTrack_global_flip_buffers(t, data, frames)
  IN  CASE t.cls = "scc" ->
             LET t2 == [t1 EXCEPT !.buffer_on_screen = Append(@, data)]
             IN  write_caption(t2, Cells(t2.buffer_on_screen), frames)
        [] t.cls = "srt" -> [t1 EXCEPT !.subtitle_start_frame = frames]
        [] OTHER -> t1

\* The parity gate of _handle_global_control: not (byte1_parity or byte2_parity)
ParityGate(data) == ~(Truthy(data.byte1_parity) \/ Truthy(data.byte2_parity))

\* The test `code != self.prev_code` that guards every global command
IsNewCode(t, code) == code # t.prev_code

\* CaptionTrack._handle_global_control: <<the track afterwards, the returned value
\* taken as a truth value>>.  The Roll-Up branch has no return statement: it
\* returns None.
handle_global_control(t, data, frames) ==
  LET code == data.code
      name == Name(code)
      new == IsNewCode(t, code)
  IN  IF ParityGate(data) THEN <<t, FALSE>>
      ELSE IF name = "Resume Caption Loading"
        THEN <<[(IF new THEN global_resume_loading(t, data, frames) ELSE t)
                  EXCEPT !.prev_code = code], TRUE>>
      ELSE IF name = "Resume Direct Captioning"
        THEN <<[(IF new THEN global_resume_direct(t, data, frames) ELSE t)
                  EXCEPT !.prev_code = code], TRUE>>
      ELSE IF name = "End of Caption (flip memory)"
        THEN <<[(IF new THEN global_flip_buffers(t, data, frames) ELSE t)
                  EXCEPT !.prev_code = code], TRUE>>
      ELSE IF name = "Erase Non-Displayed Memory"
        THEN <<IF new THEN global_erase_non_displayed_memory(t, data, frames) ELSE t, TRUE>>
      ELSE IF name = "Erase Displayed Memory"
        THEN <<IF new THEN global_erase_displayed_memory(t, data, frames) ELSE t, TRUE>>
      ELSE IF IsRollUpCaptions(code)
        THEN <<IF new THEN global_start_roll_up(t, data, frames) ELSE t, FALSE>>
      ELSE IF name = "Resume Text Display"
        THEN <<IF new THEN global_start_text_mode(t, data, frames) ELSE t, TRUE>>
      ELSE IF name = "Text Restart"
        THEN <<IF new THEN global_text_reset(global_start_text_mode(t, data, frames),
                                             data, frames)
               ELSE t, TRUE>>
      ELSE <<t, FALSE>>

\* The `if not is_global_code` block of add_data
write_code(t, data, frames) ==
  CASE t.mode = "pop_on" -> add_off_screen(t, data)
    [] t.mode = "paint_on" -> add_on_screen(t, data, frames)
    [] t.mode = "roll_up" -> add_on_screen_roll_up(t, data, frames)
    [] t.mode = "text" -> add_text(t, data, frames)
    [] OTHER -> t

\* CaptionTrack.add_data
add_data(t, data, frames) ==
  IF data.code # None /\ ~(data.byte1 = 0 /\ data.byte2 = 0)
    THEN CHOOSE result \in
           { [(IF ~r[2] THEN write_code(r[1], data, frames) ELSE r[1])
                EXCEPT !.prev_code = data.code]
             : r \in {handle_global_control([t EXCEPT !.out = <<>>], data, frames)} } : TRUE
    ELSE [t EXCEPT !.out = <<>>]

----------------------------------------------------------------------------
(* The field demultiplexer.  A CaptionTrackFactory is the record           *)
(*   [track_class, tracks, row_to_field, field_to_active_track]            *)
(* where tracks[cc_track] is <<>> (no such key) or <<track>>,              *)
(* row_to_field[row_num] is <<>> (no such key) or <<field>>, and           *)
(* field_to_active_track[field] is "" (None) or the channel of the track.  *)

Channels == {"CC1", "CC2", "CC3", "CC4"}

\* The lines of the image the rows of field 0 and of field 1 are found on
CaptionLines == <<21, 284>>

Row21 == CaptionLines[1]

Row284 == CaptionLines[2]

RowNums == {Row21, Row284}

\* CaptionTrackFactory.__init__
NewFactory(track_class) ==
  [ track_class |-> track_class,
    tracks |-> [c \in Channels |-> <<>>],
    row_to_field |-> [r \in RowNums |-> <<>>],
    field_to_active_track |-> [fld \in {0, 1} |-> ""] ]

\* A faulty `determine field for row` block that keeps the first channel seen
\* on a field as its active track
determine_field_first_channel(f, row) ==
  LET cc_track == ChannelPrefix(row.code)
  IN  IF Truthy(row.byte1_parity) /\ Truthy(row.byte2_parity) /\ cc_track \in Channels
        THEN LET detected_field == CC_CHANNEL_TO_FIELD(cc_track)
             IN  [f EXCEPT !.row_to_field[row.row_num] = <<detected_field>>,
                           !.tracks[cc_track] =
                              IF @ = <<>> THEN <<NewTrack(f.track_class, cc_track)>> ELSE @,
                           !.field_to_active_track[detected_field] =
                              IF @ = "" THEN cc_track ELSE @]
        ELSE f

\* The `determine field for row` block of CaptionTrackFactory.add_data
determine_field(f, row) ==
  LET cc_track == ChannelPrefix(row.code)
  IN  IF Truthy(row.byte1_parity) /\ Truthy(row.byte2_parity) /\ cc_track \in Channels
        THEN LET detected_field == CC_CHANNEL_TO_FIELD(cc_track)
             IN  [f EXCEPT !.row_to_field[row.row_num] = <<detected_field>>,
                           !.tracks[cc_track] =
                              IF @ = <<>> THEN <<NewTrack(f.track_class, cc_track)>> ELSE @,
                           !.field_to_active_track[detected_field] = cc_track]
        ELSE f

\* A faulty `add data` block that passes every row to the active track of field 0
current_track_any_row(f, row) == f.field_to_active_track[0]

\* The channel of the track the `add data` block of CaptionTrackFactory.add_data
\* passes the row to, "" when it passes it to none
current_track(f, row) ==
  IF f.row_to_field[row.row_num] # <<>>
    THEN f.field_to_active_track[f.row_to_field[row.row_num][1]]
    ELSE ""

RECURSIVE factory_add_rows(_, _, _, _)
\* The loop of CaptionTrackFactory.add_data:
\* [factory, delivered] after the rows `rows`
factory_add_rows(f, rows, frm, calls) ==
  IF rows = <<>> THEN [factory |-> f, delivered |-> calls]
  ELSE CHOOSE result \in
         { LET to == current_track(f1, row)
           IN  IF to # ""
                 THEN CHOOSE rest \in
                        { factory_add_rows(f2, Tail(rows), frm, made)
                          : f2 \in { [f1 EXCEPT !.tracks[to] =
                                        <<add_data(f1.tracks[to][1], row, frm)>>] },
                            made \in { Append(calls, [frame |-> frm,
                                                      row_num |-> row.row_num,
                                                      cc_track |-> to]) } } : TRUE
                 ELSE factory_add_rows(f1, Tail(rows), frm, calls)
           : row \in {Head(rows)}, f1 \in {determine_field(f, Head(rows))} } : TRUE

\* CaptionTrackFactory.add_data
CaptionTrackFactory_add_data(f, rows, frm) == factory_add_rows(f, rows, frm, <<>>)

----------------------------------------------------------------------------
(* State.                                                                  *)
(*   track      a caption track object                                     *)
(*   pre        the track as it was before the last add_data call          *)
(*   last       the row of the last add_data call: <<>> or <<row>>         *)
(*   frame      the frame counter of the sink loop (decode_to_scc and      *)
(*              others)                                                    *)
(*   img        the scanlines of the frame the image decoder works on      *)
(*   sent       what the image decoder sent for that frame: <<>> or        *)
(*              <<decoded_rows>>                                           *)
(*   factory    a CaptionTrackFactory                                      *)
(*   received   the lists of rows the sink loop received, oldest first     *)
(*   delivered  the add_data calls the factory made on tracks, as          *)
(*              [frame, row_num, cc_track], oldest first                   *)
(*   script     the number of rows of a scripted run delivered so far      *)
(*   calls      the frame numbers of the add_data calls of a scripted run  *)
(*   written    what the track of a scripted run wrote to its output       *)
(*              files, oldest first                                        *)
(* and, for the processes of ClosedCaptionFileDecoder.decode:              *)
(*   ffmpeg      whether a file exists at ffmpeg_path                      *)
(*   decoder_pc  where image_decoder_worker is: "start", "read" (its loop),*)
(*               "finally" / "finally_error" (about to send DONE, without  *)
(*               or with an exception to re-raise), "exited", "failed"     *)
(*   produced    the messages the image decoder sent, DONE excluded        *)
(*   row_pipe    the pipe row_tx -> row_rx                                 *)
(*   orch_pc     where decode is: "recv", "send" (the for loop over the    *)
(*               connections), "send_done" and "join" (the finally block), *)
(*               "returned" (return 0), "interrupted" (KeyboardInterrupt   *)
(*               left decode)                                              *)
(*   orch_i      the index of the connection or process the loop is at     *)
(*   orch_rows   the message being sent to the sinks                       *)
(*   conns       conns[i] is the pipe to sink i (running_decoders_conns)   *)
(*   sink_pc     where sink i is: "recv", "process" (the loop body),       *)
(*               "hung" (the loop body never returns), "closed" (left the  *)
(*               loop, closed its files, exited), "failed" (an exception   *)
(*               left the loop body), "killed" (KeyboardInterrupt left the *)
(*               loop body), "terminated" (by decode)                      *)
(*   got         got[i] is the list of rows messages sink i received       *)
(*   sigint      whether a KeyboardInterrupt was raised in any process     *)
(* and, for the XDS sink decode_xds_packets:                               *)
(*   xds         its local variables frame, packetbuf, xds_row and         *)
(*               gather_xds_bytes, the lines it wrote (out), the exception *)
(*               that left its loop (raised, "" for none) and the packet   *)
(*               its last pass gave to describe_xds_packet (described:     *)
(*               <<>> or <<packet>>)                                       *)
(*   xds_pre     xds as it was before the last pass of the loop            *)
(*   xds_rows    the rows of the last pass of the loop: <<>> or <<rows>>   *)
(* and, for the search of the clock run-in:                                *)
(*   templates       PRE_COMPUTED_SINE_TEMPLATES, a list of                *)
(*                   [pixels_per_cycle, max_width, run_len], as far as     *)
(*                   precompute_sine_templates has built it                *)
(*   templates_done  whether precompute_sine_templates has returned        *)
(*   preamble_match  what sync_to_preamble returned last: <<>> (nothing    *)
(*                   yet, or None) or <<[preamble_start, bit_width]>>      *)
VARIABLES track, pre, last, frame, img, sent, factory, received, delivered,
          script, calls, written,
          ffmpeg, decoder_pc, produced, row_pipe, orch_pc, orch_i, orch_rows,
          conns, sink_pc, got, sigint,
          xds, xds_pre, xds_rows,
          templates, templates_done, preamble_match

vars ==
  <<track, pre, last, frame, img, sent, factory, received, delivered,
    script, calls, written,
    ffmpeg, decoder_pc, produced, row_pipe, orch_pc, orch_i, orch_rows,
    conns, sink_pc, got, sigint,
    xds, xds_pre, xds_rows,
    templates, templates_done, preamble_match>>

trackVars == <<track, pre, last>>

rowVars == <<img, sent>>

demuxVars == <<factory, received, delivered>>

runVars == <<script, calls, written>>

procVars ==
  <<ffmpeg, decoder_pc, produced, row_pipe, orch_pc, orch_i, orch_rows,
    conns, sink_pc, got, sigint>>

xdsVars == <<xds, xds_pre, xds_rows>>

syncVars == <<templates, templates_done, preamble_match>>

\* Number of frames delivered to one track
MaxFrames == 4

\* Number of frames delivered in the roll-up runs
MaxRollUpFrames == 6

TrackClasses == {"scc", "text", "srt", "html"}

Modes == {"pop_on", "paint_on", "roll_up", "text"}

\* What find_and_decode_rows returns for one scanline: the rows a CC1 track is
\* sent in the runs below.  Global commands, a Carriage Return, a printable
\* pair, and pairs whose parity failed.
FoundRows ==
  { <<Row21, \h14, "ok", \h20, "ok">>,     \* Resume Caption Loading
    <<Row21, \h14, "ok", \h29, "ok">>,     \* Resume Direct Captioning
    <<Row21, \h14, "ok", \h2F, "ok">>,     \* End of Caption (flip memory)
    <<Row21, \h14, "ok", \h2E, "ok">>,     \* Erase Non-Displayed Memory
    <<Row21, \h14, "ok", \h2C, "ok">>,     \* Erase Displayed Memory
    <<Row21, \h14, "ok", \h25, "ok">>,     \* Roll-Up Captions-2 Rows
    <<Row21, \h14, "ok", \h26, "ok">>,     \* Roll-Up Captions-3 Rows
    <<Row21, \h14, "ok", \h2B, "ok">>,     \* Resume Text Display
    <<Row21, \h14, "ok", \h2A, "ok">>,     \* Text Restart
    <<Row21, \h14, "ok", \h2D, "ok">>,     \* Carriage Return
    <<Row21, \h48, "ok", \h69, "ok">>,     \* Hi
    <<Row21, \h48, "bad", \h69, "bad">> }  \* both parities failed

\* The rows of the roll-up runs
RollUpFoundRows ==
  { <<Row21, \h14, "ok", \h25, "ok">>,
    <<Row21, \h14, "ok", \h2D, "ok">>,
    <<Row21, \h48, "ok", \h69, "ok">> }

\* Rows only a direct caller of add_data can pass: a control label whose two
\* parity flags are both false (extract_closed_caption_bytes never emits one)
DirectRows ==
  { [row_num |-> Row21, code |-> ALL_CC_CONTROL_CODES(\h14, b2), control |-> TRUE,
     byte1 |-> \h14, byte1_parity |-> "bad", byte2 |-> b2, byte2_parity |-> "bad"]
    : b2 \in {\h20, \h29, \h2D} }

\* The variables a run does not use stay as they are here
IdleTrack ==
  /\ track = NewTrack("text", "CC1")
  /\ pre = track
  /\ last = <<>>

IdleRows ==
  /\ img = <<>>
  /\ sent = <<>>

IdleDemux ==
  /\ factory = NewFactory("text")
  /\ received = <<>>
  /\ delivered = <<>>

IdleRun ==
  /\ script = 0
  /\ calls = <<>>
  /\ written = <<>>

\* The formats given with --ccformat, by position
Formats == <<"srt", "scc">>

Sinks == 1..Len(Formats)

DONE == <<"DONE">>

FrameRows(n) == <<"rows", n>>

IdleProc ==
  /\ ffmpeg = TRUE
  /\ decoder_pc = "exited"
  /\ produced = <<>>
  /\ row_pipe = <<>>
  /\ orch_pc = "returned"
  /\ orch_i = 1
  /\ orch_rows = DONE
  /\ conns = [i \in Sinks |-> <<>>]
  /\ sink_pc = [i \in Sinks |-> "closed"]
  /\ got = [i \in Sinks |-> <<>>]
  /\ sigint = FALSE

\* xds_row = -1
NoXdsRow == -1

\* decode_xds_packets before its loop
NewXds ==
  [frame |-> 0, packetbuf |-> <<>>, xds_row |-> NoXdsRow, gather_xds_bytes |-> FALSE,
   out |-> <<>>, raised |-> "", described |-> <<>>]

IdleXds ==
  /\ xds = NewXds
  /\ xds_pre = NewXds
  /\ xds_rows = <<>>

\* PRE_COMPUTED_SINE_TEMPLATES = [] (the module as imported)
IdleSync ==
  /\ templates = <<>>
  /\ templates_done = FALSE
  /\ preamble_match = <<>>

InitTrack ==
  /\ \E cls \in TrackClasses : track = NewTrack(cls, "CC1")
  /\ pre = track
  /\ last = <<>>
  /\ frame = 0
  /\ IdleRows
  /\ IdleDemux
  /\ IdleRun
  /\ IdleProc
  /\ IdleXds
  /\ IdleSync

\* One pass of the sink loop with one row for the track: track.add_data(row, frame)
Deliver(row) ==
  /\ track' = add_data(track, row, frame)
  /\ pre' = track
  /\ last' = <<row>>
  /\ frame' = frame + 1
  /\ UNCHANGED <<rowVars, demuxVars, runVars, procVars, xdsVars, syncVars>>

\* A row of the classifier reaches the track
AddData ==
  /\ frame < MaxFrames
  /\ \E found \in FoundRows :
       /\ classify_row(found) # <<>>
       /\ Deliver(classify_row(found)[1])

\* A caller passes add_data a row of its own
AddDataDirect ==
  /\ frame < MaxFrames
  /\ \E row \in DirectRows : Deliver(row)

\* A row of the classifier reaches the track, in a roll-up run
AddRollUpData ==
  /\ frame < MaxRollUpFrames
  /\ \E found \in RollUpFoundRows :
       /\ classify_row(found) # <<>>
       /\ Deliver(classify_row(found)[1])

NextTrack == AddData

SpecTrack == InitTrack /\ [][NextTrack]_vars

NextTrackApi == AddData \/ AddDataDirect

SpecTrackApi == InitTrack /\ [][NextTrackApi]_vars

NextRollUp == AddRollUpData

SpecRollUp == InitTrack /\ [][NextRollUp]_vars

----------------------------------------------------------------------------
(* The image decoder on one frame: extract_closed_caption_bytes.           *)

\* Number of lines searched in a frame (end_line - start_line)
SearchLines == 4

\* Bit k (0 is the least significant) of a 7 bit value
BitOf(byte, k) == (byte \div (2 ^ k)) % 2

\* The number of 1 bits of a 7 bit value
OnesOf(byte) ==
  BitOf(byte, 0) + BitOf(byte, 1) + BitOf(byte, 2) + BitOf(byte, 3) + BitOf(byte, 4)
    + BitOf(byte, 5) + BitOf(byte, 6)

\* The 8 bits a byte is transmitted as: 7 data bits, least significant first,
\* and the odd parity bit, inverted when parity_ok is FALSE
ByteBits(byte, parity_ok) ==
  [k \in 1..8 |->
     IF k <= 7 THEN BitOf(byte, k - 1)
     ELSE IF parity_ok THEN (1 + OnesOf(byte)) % 2 ELSE OnesOf(byte) % 2]

\* A scanline the synchronizer matched, every bit sampled cleanly
CleanLine(start_bits, byte1, parity1_ok, byte2, parity2_ok) ==
  [ match |-> TRUE,
    bit |-> start_bits \o ByteBits(byte1, parity1_ok) \o ByteBits(byte2, parity2_ok),
    std |-> [k \in 1..19 |-> "lo"] ]

\* A line whose data bit `k` of byte 1 (bit index 3 + k) arrived inverted and
\* with a deviation above the threshold
NoisyLine(byte1, byte2, k) ==
  LET line == CleanLine(<<0, 0, 1>>, byte1, TRUE, byte2, TRUE)
  IN  [line EXCEPT !.bit[START_BIT_COUNT + k + 1] = Flip(@),
                   !.std[START_BIT_COUNT + k + 1] = "hi"]

\* The scanlines of the runs
Scanlines ==
  { [match |-> FALSE],
    CleanLine(<<0, 0, 1>>, \h14, TRUE, \h20, TRUE),
    CleanLine(<<0, 0, 1>>, \h48, TRUE, \h69, TRUE),
    CleanLine(<<0, 0, 1>>, \h14, TRUE, \h20, FALSE),
    CleanLine(<<0, 0, 1>>, \h14, FALSE, \h20, TRUE),
    CleanLine(<<0, 0, 1>>, \h48, TRUE, \h69, FALSE),
    CleanLine(<<0, 0, 0>>, \h48, TRUE, \h69, TRUE),
    CleanLine(<<1, 0, 1>>, \h14, TRUE, \h20, TRUE),
    NoisyLine(\h48, \h69, 3) }

\* get_bit(0..2) is not 0, 0, 1: decode_bytes takes its `return None, ...`
StartBitsFail(line) ==
  \/ get_bit(0, line)[1] # 0
  \/ get_bit(1, line)[1] # 0
  \/ get_bit(2, line)[1] # 1

InitRows ==
  /\ img \in [1..SearchLines -> Scanlines]
  /\ sent = <<>>
  /\ frame = 0
  /\ IdleTrack
  /\ IdleDemux
  /\ IdleRun
  /\ IdleProc
  /\ IdleXds
  /\ IdleSync

\* image_decoder_worker: tx.send(extract_closed_caption_bytes(image, start_line,
\* search_lines)), with start_line 0
ExtractRows ==
  /\ sent = <<>>
  /\ sent' = <<extract_closed_caption_bytes(img, 0, SearchLines)>>
  /\ UNCHANGED <<img, frame, trackVars, demuxVars, runVars, procVars, xdsVars, syncVars>>

NextRows == ExtractRows

SpecRows == InitRows /\ [][NextRows]_vars

----------------------------------------------------------------------------
(* A sink loop with its CaptionTrackFactory.                               *)

\* Number of frames a factory is sent
MaxDemuxFrames == 3

\* What find_and_decode_rows returns for a frame in these runs: nothing or one
\* row on line 21, then nothing or one row on line 284
FoundFrames ==
  { on21 \o on284 :
      on21 \in { <<>>,
                 << <<Row21, \h14, "ok", \h20, "ok">> >>,     \* CC1 Resume Caption Loading
                 << <<Row21, \h48, "ok", \h69, "ok">> >> },   \* Hi
      on284 \in { <<>>,
                  << <<Row284, \h1C, "ok", \h20, "ok">> >>,   \* (0x1C, 0x20)
                  << <<Row284, \h14, "ok", \h2D, "ok">> >>,   \* (0x14, 0x2D)
                  << <<Row284, \h59, "ok", \h6F, "ok">> >> } } \* Yo

InitDemux ==
  /\ \E cls \in TrackClasses : factory = NewFactory(cls)
  /\ received = <<>>
  /\ delivered = <<>>
  /\ frame = 0
  /\ IdleTrack
  /\ IdleRows
  /\ IdleRun
  /\ IdleProc
  /\ IdleXds
  /\ IdleSync

\* One pass of the loop of decode_to_scc, decode_to_srt, decode_to_text or
\* decode_to_html: rows = rx.recv(); track_factory.add_data(rows, frame); frame += 1
ReceiveRows ==
  /\ frame < MaxDemuxFrames
  /\ \E found \in FoundFrames :
       LET rows == classify_rows(found)
           r == CaptionTrackFactory_add_data(factory, rows, frame)
       IN  /\ factory' = r.factory
           /\ received' = Append(received, rows)
           /\ delivered' = delivered \o r.delivered
  /\ frame' = frame + 1
  /\ UNCHANGED <<trackVars, rowVars, runVars, procVars, xdsVars, syncVars>>

NextDemux == ReceiveRows

SpecDemux == InitDemux /\ [][NextDemux]_vars

----------------------------------------------------------------------------
(* Properties of one track (SpecTrack, SpecTrackApi, SpecRollUp).          *)

\* The row of the last add_data call
LastRow == last[1]

\* A global command of `names` acted in the last add_data call: the parity gate
\* let the row pass, and its label differs from the previous one
Acted(names) ==
  /\ last # <<>>
  /\ Name(LastRow.code) \in names
  /\ ~ParityGate(LastRow)
  /\ IsNewCode(pre, LastRow.code)

RollUpNames ==
  {"Roll-Up Captions-2 Rows", "Roll-Up Captions-3 Rows", "Roll-Up Captions-4 Rows"}

ModeNames ==
  {"Resume Caption Loading", "Resume Direct Captioning", "Resume Text Display",
   "Text Restart"} \cup RollUpNames

\* The buffers and the text cursor are what they were before the last call
BuffersUnchanged ==
  /\ track.buffer_on_screen = pre.buffer_on_screen
  /\ track.buffer_off_screen = pre.buffer_off_screen
  /\ track.roll_up_buffer = pre.roll_up_buffer
  /\ track.text_buffer = pre.text_buffer
  /\ track.text_cursor = pre.text_cursor

\* C1: when a control-code label is delivered to a track a second time in a row,
\* the second delivery leaves the mode, the displayed, non-displayed, roll-up and
\* text buffers and the text cursor unchanged and writes nothing.
C1_DuplicateIgnored ==
  (last # <<>> /\ LastRow.control /\ LastRow.code = pre.prev_code)
    => (track.mode = pre.mode /\ BuffersUnchanged /\ track.out = <<>>)

\* C2: the mode of a track is one of pop_on, paint_on, roll_up, text; it is pop_on
\* when the track is created; and a delivery changes it only when Resume Caption
\* Loading, Resume Direct Captioning, Roll-Up Captions, Resume Text Display or
\* Text Restart acts.
C2_ModeChanges ==
  /\ track.mode \in Modes
  /\ pre.mode \in Modes
  /\ frame = 0 => track.mode = "pop_on"
  /\ track.mode # pre.mode => Acted(ModeNames)

\* A Text Restart took a track out of a caption mode
C2_Witness ==
  /\ Acted({"Text Restart"})
  /\ pre.mode = "paint_on"
  /\ track.mode = "text"

\* C3: after Roll-Up Captions N Rows acts, in any mode: the mode is roll_up,
\* roll_up_length is N, and the displayed and the non-displayed buffer are empty.
C3_RollUpStarts ==
  Acted(RollUpNames)
    => /\ track.mode = "roll_up"
       /\ track.roll_up_length = ROLL_UP_LEN(LastRow.byte2)
       /\ track.buffer_on_screen = <<>>
       /\ track.buffer_off_screen = <<>>

RECURSIVE TextLines(_, _)
\* The number of lines of a roll-up buffer that hold text: a Carriage Return
\* ends a line; `started` tells whether the line being read holds text already
TextLines(buffer, started) ==
  IF buffer = <<>> THEN (IF started THEN 1 ELSE 0)
  ELSE IF Name(Head(buffer).code) = "Carriage Return"
    THEN (IF started THEN 1 ELSE 0) + TextLines(Tail(buffer), FALSE)
  ELSE TextLines(Tail(buffer), started \/ ~Head(buffer).control)

\* C4: in roll_up mode with roll_up_length N the roll-up buffer holds at most N
\* lines of text.
C4_RollUpWindow ==
  track.mode = "roll_up" => TextLines(track.roll_up_buffer, FALSE) <= track.roll_up_length

----------------------------------------------------------------------------
(* Properties of the field demultiplexer (SpecDemux).                      *)

\* The frame of C5: CC1 Resume Caption Loading on line 21, (0x1C, 0x20) on line 284
IsC5Frame(rows) ==
  /\ Len(rows) = 2
  /\ rows[1].row_num = Row21 /\ rows[1].byte1 = \h14 /\ rows[1].byte2 = \h20
  /\ rows[2].row_num = Row284 /\ rows[2].byte1 = \h1C /\ rows[2].byte2 = \h20

\* The calls the factory made for frame number n (the n+1st list received)
DeliveredIn(n) == {i \in 1..Len(delivered) : delivered[i].frame = n}

\* C5: when a frame has CC1 Resume Caption Loading on row 21 and (0x1C, 0x20) on
\* row 284, row 21 is mapped to field 0 and row 284 to field 1, and the printable
\* pairs of the frame after it go to the CC1 track when on row 21 and to a CC3
\* track when on row 284.
C5_FieldRouting ==
  \A n \in 1..Len(received) :
    IsC5Frame(received[n]) =>
      /\ n = Len(received) =>
           /\ factory.row_to_field[Row21] = <<0>>
           /\ factory.row_to_field[Row284] = <<1>>
      /\ (n < Len(received) /\ \A k \in 1..Len(received[n + 1]) : ~received[n + 1][k].control)
           => \A i \in DeliveredIn(n) :
                /\ delivered[i].row_num = Row21 => delivered[i].cc_track = "CC1"
                /\ delivered[i].row_num = Row284 => delivered[i].cc_track = "CC3"

----------------------------------------------------------------------------
(* Properties of the image decoder (SpecRows).                             *)

\* The rows sent for the frame
SentRows == sent[1]

\* C6: a scanline whose start bits are not 0, 0, 1 produces no row.
C6_StartBitsDropRow ==
  sent # <<>> =>
    \A n \in 1..SearchLines :
      (img[n].match /\ StartBitsFail(img[n]))
        => ~\E k \in 1..Len(SentRows) : SentRows[k].row_num = n - 1

\* The lines of the frame that hold a control pair whose byte 2 parity failed
ControlWithBadByte2 ==
  {n \in 1..SearchLines :
     /\ img[n].match
     /\ ~StartBitsFail(img[n])
     /\ is_control(decode_bytes(img[n])[1], decode_bytes(img[n])[3])
     /\ ~Truthy(decode_bytes(img[n])[4])}

\* C7: every row the classifier emits obeys the parity policy: when the parity
\* of byte1 failed the row is not a control row and byte1 is 0x7F; when the parity
\* of byte2 failed the row is not a control row and byte2 is 0x7F; and a control
\* pair whose byte2 parity failed is not emitted.
C7_ParityPolicy ==
  sent # <<>> =>
    /\ \A k \in 1..Len(SentRows) :
         /\ ~Truthy(SentRows[k].byte1_parity)
              => (~SentRows[k].control /\ SentRows[k].byte1 = \h7F)
         /\ ~Truthy(SentRows[k].byte2_parity)
              => (~SentRows[k].control /\ SentRows[k].byte2 = \h7F)
    /\ \A n \in ControlWithBadByte2 :
         ~\E k \in 1..Len(SentRows) : SentRows[k].row_num = n - 1

\* A frame was decoded that held a control pair with a failed byte2 parity, a
\* pair with a failed byte1 parity and a printable pair with a failed byte2 parity
C7_Witness ==
  /\ sent # <<>>
  /\ ControlWithBadByte2 # {}
  /\ \E k \in 1..Len(SentRows) :
       SentRows[k].byte1_parity = "bad" /\ SentRows[k].byte2_parity = "ok"
  /\ \E k \in 1..Len(SentRows) :
       SentRows[k].byte1_parity = "ok" /\ SentRows[k].byte2_parity = "bad"

----------------------------------------------------------------------------
(* Properties of one track, continued.                                     *)

C9_ExactSwap ==
  Acted({"End of Caption (flip memory)"})
    => /\ track.buffer_on_screen = pre.buffer_off_screen
       /\ track.buffer_off_screen = pre.buffer_on_screen
       /\ track.mode = pre.mode

\* C9: when End of Caption acts, the non-displayed buffer becomes the previous
\* displayed buffer and the mode is unchanged; the displayed buffer becomes the
\* previous non-displayed buffer on the text, SRT and HTML track, and the previous
\* non-displayed buffer followed by the End of Caption row on the SCC track.
C9_Swap ==
  Acted({"End of Caption (flip memory)"})
    => /\ track.buffer_off_screen = pre.buffer_on_screen
       /\ track.mode = pre.mode
       /\ track.buffer_on_screen =
            IF track.cls = "scc" THEN Append(pre.buffer_off_screen, LastRow)
            ELSE pre.buffer_off_screen

\* End of Caption acted while both buffers held rows that differ
C9_Witness ==
  /\ Acted({"End of Caption (flip memory)"})
  /\ pre.buffer_on_screen # <<>>
  /\ pre.buffer_off_screen # <<>>
  /\ pre.buffer_on_screen # pre.buffer_off_screen

\* C10: Erase Displayed Memory empties the displayed buffer (the roll-up buffer
\* instead when the mode is roll_up) and leaves the non-displayed buffer and the
\* mode; Erase Non-Displayed Memory empties the non-displayed buffer and leaves
\* the displayed buffer, the roll-up buffer and the mode.
C10_EraseOwnMemory ==
  /\ Acted({"Erase Displayed Memory"})
       => /\ IF pre.mode = "roll_up"
               THEN /\ track.roll_up_buffer = <<>>
                    /\ track.buffer_on_screen = pre.buffer_on_screen
               ELSE /\ track.buffer_on_screen = <<>>
                    /\ track.roll_up_buffer = pre.roll_up_buffer
          /\ track.buffer_off_screen = pre.buffer_off_screen
          /\ track.mode = pre.mode
  /\ Acted({"Erase Non-Displayed Memory"})
       => /\ track.buffer_off_screen = <<>>
          /\ track.buffer_on_screen = pre.buffer_on_screen
          /\ track.roll_up_buffer = pre.roll_up_buffer
          /\ track.mode = pre.mode

\* Erase Displayed Memory acted while both caption buffers held rows
C10_Witness ==
  /\ Acted({"Erase Displayed Memory"})
  /\ pre.buffer_on_screen # <<>>
  /\ pre.buffer_off_screen # <<>>
  /\ track.buffer_on_screen = <<>>

----------------------------------------------------------------------------
(* Non-global pairs (SpecTrack).                                           *)

\* The names of the global commands of _handle_global_control
GlobalNames ==
  ModeNames \cup {"End of Caption (flip memory)", "Erase Non-Displayed Memory",
                  "Erase Displayed Memory"}

\* The last add_data call passed a pair that is not a global command to a
\* caption track (SCC or SRT) that was in mode `mode`
NonGlobalIn(mode) ==
  /\ last # <<>>
  /\ track.cls \in {"scc", "srt"}
  /\ pre.mode = mode
  /\ Name(LastRow.code) \notin GlobalNames

\* C11: while an SCC or SRT track is in pop_on mode, a pair that is not a global
\* command is appended to the non-displayed buffer and to nothing else: the
\* displayed buffer and the roll-up buffer keep their rows and nothing is written.
C11_PopOnOffScreenOnly ==
  NonGlobalIn("pop_on")
    => /\ track.buffer_off_screen = Append(pre.buffer_off_screen, LastRow)
       /\ track.buffer_on_screen = pre.buffer_on_screen
       /\ track.roll_up_buffer = pre.roll_up_buffer
       /\ track.out = <<>>
       /\ track.mode = "pop_on"

\* A pair was appended off screen while a caption was displayed
C11_Witness ==
  /\ NonGlobalIn("pop_on")
  /\ track.cls = "srt"
  /\ pre.buffer_on_screen # <<>>
  /\ Len(track.buffer_off_screen) = Len(pre.buffer_off_screen) + 1

\* An event of the caption file other than its header was written by the last call
CaptionWritten ==
  \E i \in 1..Len(track.out) :
    track.out[i].sink = "caption" /\ track.out[i].kind # "header"

\* C12: while an SCC or SRT track is in roll_up mode, a pair that is not a global
\* command is appended to the roll-up buffer, and the roll-up buffer is written
\* as a subtitle event at that frame.
C12_RollUpEmits ==
  NonGlobalIn("roll_up")
    => /\ track.roll_up_buffer = Append(pre.roll_up_buffer, LastRow)
       /\ CaptionWritten

----------------------------------------------------------------------------
(* A scripted run of one SRT track (SpecPopOn): the sink loop of           *)
(* decode_to_srt counts the frames; the rows of PopOnRows reach the CC1    *)
(* track in order, the first five in consecutive frames that start at any  *)
(* frame, the last one at any later frame.                                 *)

\* The last frame number of a scripted run
MaxScriptFrames == 201

\* Resume Caption Loading, Erase Non-Displayed Memory, the preamble address code
\* (0x14, 0x52), the pair 'Hi', End of Caption and Erase Displayed Memory
PopOnRows ==
  << <<Row21, \h14, "ok", \h20, "ok">>,
     <<Row21, \h14, "ok", \h2E, "ok">>,
     <<Row21, \h14, "ok", \h52, "ok">>,
     <<Row21, \h48, "ok", \h69, "ok">>,
     <<Row21, \h14, "ok", \h2F, "ok">>,
     <<Row21, \h14, "ok", \h2C, "ok">> >>

\* The rows of the script that come in consecutive frames: all but the last
PopOnBurst == Len(PopOnRows) - 1

InitPopOn ==
  /\ track = NewTrack("srt", "CC1")
  /\ pre = track
  /\ last = <<>>
  /\ frame = 0
  /\ IdleRows
  /\ IdleDemux
  /\ IdleRun
  /\ IdleProc
  /\ IdleXds
  /\ IdleSync

\* A pass of the sink loop whose rows hold nothing for the track
PassFrame ==
  /\ frame < MaxScriptFrames
  /\ script = 0 \/ script = PopOnBurst
  /\ frame' = frame + 1
  /\ pre' = track
  /\ last' = <<>>
  /\ UNCHANGED <<track, rowVars, demuxVars, runVars, procVars, xdsVars, syncVars>>

\* A pass of the sink loop that delivers the next row of the script
DeliverScript ==
  /\ frame <= MaxScriptFrames
  /\ script < Len(PopOnRows)
  /\ track' = add_data(track, classify_row(PopOnRows[script + 1])[1], frame)
  /\ pre' = track
  /\ last' = <<classify_row(PopOnRows[script + 1])[1]>>
  /\ frame' = frame + 1
  /\ script' = script + 1
  /\ calls' = Append(calls, frame)
  /\ written' = written \o track'.out
  /\ UNCHANGED <<rowVars, demuxVars, procVars, xdsVars, syncVars>>

NextPopOn == PassFrame \/ DeliverScript

SpecPopOn == InitPopOn /\ [][NextPopOn]_vars

\* The frames of the pop-on scenario
PopOnCalls == <<100, 101, 102, 103, 104, 200>>

\* The entries the track wrote to the .srt file
SrtEntries == SelectSeq(written, LAMBDA e : e.sink = "caption" /\ e.kind = "srt")

\* C13 as stated: the pop-on scenario makes the SRT track write exactly one
\* entry, with number 1, from 00:00:03,337 to 00:00:06,673, with the text Hi.
C13_PopOnScenario ==
  calls = PopOnCalls
    => /\ Len(SrtEntries) = 1
       /\ SrtEntries[1].count = 1
       /\ SrtEntries[1].start = "00:00:03,337"
       /\ SrtEntries[1].end = "00:00:06,673"
       /\ SrtEntries[1].text = <<"H", "i">>

\* C13: the pop-on scenario makes the SRT track write exactly one entry, with
\* number 1, from 00:00:03,470 (frame 104, the End of Caption) to 00:00:06,673
\* (frame 200), whose text is the four spaces of the indent followed by Hi.
C13_PopOnEntry ==
  calls = PopOnCalls
    => /\ Len(SrtEntries) = 1
       /\ SrtEntries[1].count = 1
       /\ SrtEntries[1].start = "00:00:03,470"
       /\ SrtEntries[1].end = "00:00:06,673"
       /\ SrtEntries[1].text = <<" ", " ", " ", " ", "H", "i">>

\* The scenario ran to its end and the entry was written at the erase
C13_Witness ==
  /\ calls = PopOnCalls
  /\ Acted({"Erase Displayed Memory"})
  /\ Len(written) = 1
  /\ written[1].start_frame = 104
  /\ written[1].end_frame = 200

\* The frame number of the last add_data call
LastFrame == frame - 1

\* C14: on an SRT track, a caption that is displayed is written as an entry that
\* starts at the frame it became displayed and ends at the frame of the next
\* Erase Displayed Memory or End of Caption: when one of the two acts while the
\* displayed buffer holds rows, that entry is written, so a caption replaced by
\* an End of Caption is not lost.
C14_DisplayedEmitted ==
  ( /\ Acted({"Erase Displayed Memory", "End of Caption (flip memory)"})
    /\ track.cls = "srt"
    /\ pre.mode = "pop_on"
    /\ pre.buffer_on_screen # <<>> )
    => \E i \in 1..Len(track.out) :
         /\ track.out[i].sink = "caption"
         /\ track.out[i].kind = "srt"
         /\ track.out[i].start_frame = pre.subtitle_start_frame
         /\ track.out[i].end_frame = LastFrame

----------------------------------------------------------------------------
(* Rows of lines that are not mapped to a field (SpecDemux).               *)

\* What decode_captions_debug writes for one row of frame `frm`
debug_line(frm, row) ==
  IF row.code = None
    THEN [frame |-> frm, row_num |-> row.row_num, skip |-> TRUE,
          byte1 |-> NoByte, byte2 |-> NoByte, parity |-> <<>>, code |-> None]
    ELSE [frame |-> frm, row_num |-> row.row_num, skip |-> FALSE,
          byte1 |-> row.byte1, byte2 |-> row.byte2,
          parity |-> << IF Truthy(row.byte1_parity) THEN "T" ELSE "F",
                        IF Truthy(row.byte2_parity) THEN "T" ELSE "F" >>,
          code |-> row.code]

\* The lines the loop body of decode_captions_debug writes for the rows of a frame
decode_captions_debug(rows, frm) == [k \in 1..Len(rows) |-> debug_line(frm, rows[k])]

\* Row k of the n-th list received names a channel and both its parities are good
NamesChannel(n, k) ==
  /\ Truthy(received[n][k].byte1_parity)
  /\ Truthy(received[n][k].byte2_parity)
  /\ ChannelPrefix(received[n][k].code) \in Channels

\* One of the first n lists received holds a row on line row_num that names a channel
MappedBy(n, row_num) ==
  \E m \in 1..n : \E k \in 1..Len(received[m]) :
    received[m][k].row_num = row_num /\ NamesChannel(m, k)

\* C15: a row on a line that has no entry in the row-to-field mapping is passed
\* to no track; the line of every row a track was passed had been mapped by a
\* row that names a channel, and only such a row gives a line its entry; the
\* debug sink writes a line for every row received, mapped or not.
C15_UnmappedDropped ==
  /\ \A i \in 1..Len(delivered) : MappedBy(delivered[i].frame + 1, delivered[i].row_num)
  /\ \A row_num \in RowNums :
       factory.row_to_field[row_num] # <<>> <=> MappedBy(Len(received), row_num)
  /\ \A n \in 1..Len(received) :
       /\ Len(decode_captions_debug(received[n], n - 1)) = Len(received[n])
       /\ \A k \in 1..Len(received[n]) :
            /\ decode_captions_debug(received[n], n - 1)[k].row_num = received[n][k].row_num
            /\ decode_captions_debug(received[n], n - 1)[k].code = received[n][k].code

\* The last list received held a row on line 284, which has no entry, next to a
\* row on line 21 that a track was passed
C15_Witness ==
  /\ Len(received) >= 2
  /\ factory.row_to_field[Row284] = <<>>
  /\ \E k \in 1..Len(received[Len(received)]) : received[Len(received)][k].row_num = Row284
  /\ \E i \in DeliveredIn(Len(received) - 1) : delivered[i].row_num = Row21

----------------------------------------------------------------------------
(* The processes of ClosedCaptionFileDecoder.decode (SpecRun): the image   *)
(* decoder, the orchestrator (decode itself) and one sink per format, run  *)
(* with -q (no status process).  A pipe is the sequence of the messages    *)
(* sent and not yet received; send blocks while the pipe is full.  A       *)
(* message is DONE or the rows of a frame, FrameRows(n) for the n-th frame *)
(* the image decoder read.                                                 *)

\* Number of frames the video holds at most
MaxRunFrames == 2

\* Number of messages a pipe holds before send blocks
PipeCapacity == 1

\* conn.send(message) on a pipe
send(pipe, message) == Append(pipe, message)

\* A faulty fan-out loop that sends the rows to the first sink only
fan_out_first_only(cs, i, rows) ==
  IF i = 1 THEN [cs EXCEPT ![i] = send(@, rows)] ELSE cs

\* One pass of `for conn in running_decoders_conns: conn.send(rows)`
fan_out(cs, i, rows) == [cs EXCEPT ![i] = send(@, rows)]

\* decode has started the sinks and the image decoder and enters its loop
InitRun ==
  /\ ffmpeg \in BOOLEAN
  /\ decoder_pc = "start"
  /\ produced = <<>>
  /\ row_pipe = <<>>
  /\ orch_pc = "recv"
  /\ orch_i = 1
  /\ orch_rows = DONE
  /\ conns = [i \in Sinks |-> <<>>]
  /\ sink_pc = [i \in Sinks |-> "recv"]
  /\ got = [i \in Sinks |-> <<>>]
  /\ sigint = FALSE
  /\ IdleTrack
  /\ frame = 0
  /\ IdleRows
  /\ IdleDemux
  /\ IdleRun
  /\ IdleXds
  /\ IdleSync

decoderVars == <<decoder_pc, produced, row_pipe>>

orchVars == <<orch_pc, orch_i, orch_rows>>

sinkVars == <<sink_pc, got>>

\* The variables of the runs of one track, one frame or one factory
partVars == <<trackVars, frame, rowVars, demuxVars, runVars, xdsVars, syncVars>>

\* image_decoder_worker finds ffmpeg and enters its loop, or raises RuntimeError
DecoderStart ==
  /\ decoder_pc = "start"
  /\ decoder_pc' = IF ffmpeg THEN "read" ELSE "finally_error"
  /\ UNCHANGED <<ffmpeg, produced, row_pipe, orchVars, conns, sinkVars, sigint, partVars>>

\* image_decoder_worker reads a frame and sends its rows
DecoderSend ==
  /\ decoder_pc = "read"
  /\ Len(produced) < MaxRunFrames
  /\ Len(row_pipe) < PipeCapacity
  /\ produced' = Append(produced, FrameRows(Len(produced) + 1))
  /\ row_pipe' = send(row_pipe, FrameRows(Len(produced) + 1))
  /\ UNCHANGED <<ffmpeg, decoder_pc, orchVars, conns, sinkVars, sigint, partVars>>

\* image_decoder_worker reads less than a frame and leaves its loop
DecoderEndOfInput ==
  /\ decoder_pc = "read"
  /\ decoder_pc' = "finally"
  /\ UNCHANGED <<ffmpeg, produced, row_pipe, orchVars, conns, sinkVars, sigint, partVars>>

\* KeyboardInterrupt in image_decoder_worker: caught, `pass`
DecoderInterrupt ==
  /\ decoder_pc \in {"start", "read"}
  /\ decoder_pc' = "finally"
  /\ sigint' = TRUE
  /\ UNCHANGED <<ffmpeg, produced, row_pipe, orchVars, conns, sinkVars, partVars>>

\* The finally block of image_decoder_worker: tx.send("DONE"); then the process
\* exits, with the exception that was not caught if there is one
DecoderSendDone ==
  /\ decoder_pc \in {"finally", "finally_error"}
  /\ Len(row_pipe) < PipeCapacity
  /\ row_pipe' = send(row_pipe, DONE)
  /\ decoder_pc' = IF decoder_pc = "finally" THEN "exited" ELSE "failed"
  /\ UNCHANGED <<ffmpeg, produced, orchVars, conns, sinkVars, sigint, partVars>>

\* decode: rows = row_rx.recv(); if rows == "DONE": break
OrchRecv ==
  /\ orch_pc = "recv"
  /\ row_pipe # <<>>
  /\ row_pipe' = Tail(row_pipe)
  /\ orch_rows' = Head(row_pipe)
  /\ orch_pc' = IF Head(row_pipe) = DONE THEN "send_done" ELSE "send"
  /\ orch_i' = 1
  /\ UNCHANGED <<ffmpeg, decoder_pc, produced, conns, sinkVars, sigint, partVars>>

\* decode: one conn.send(rows) of the loop over the connections
OrchSend ==
  /\ orch_pc = "send"
  /\ Len(conns[orch_i]) < PipeCapacity
  /\ conns' = fan_out(conns, orch_i, orch_rows)
  /\ IF orch_i < Len(Formats)
       THEN orch_i' = orch_i + 1 /\ orch_pc' = orch_pc
       ELSE orch_i' = 1 /\ orch_pc' = "recv"
  /\ UNCHANGED <<ffmpeg, decoderVars, orch_rows, sinkVars, sigint, partVars>>

\* KeyboardInterrupt in the loop of decode: break
OrchInterrupt ==
  /\ orch_pc \in {"recv", "send"}
  /\ orch_pc' = "send_done"
  /\ orch_i' = 1
  /\ sigint' = TRUE
  /\ UNCHANGED <<ffmpeg, decoderVars, orch_rows, conns, sinkVars, partVars>>

\* The index after orch_i in a loop of the finally block, which goes on at `then`
\* after the last one
NextIndex(then) ==
  IF orch_i < Len(Formats)
    THEN orch_i' = orch_i + 1 /\ orch_pc' = orch_pc
    ELSE orch_i' = 1 /\ orch_pc' = then

\* The finally block of decode: running_decoders_conns[i].send("DONE")
OrchSendDone ==
  /\ orch_pc = "send_done"
  /\ Len(conns[orch_i]) < PipeCapacity
  /\ conns' = [conns EXCEPT ![orch_i] = send(@, DONE)]
  /\ NextIndex("join")
  /\ UNCHANGED <<ffmpeg, decoderVars, orch_rows, sinkVars, sigint, partVars>>

\* KeyboardInterrupt in that send: `except: running_decoders[i].terminate()`
OrchTerminate ==
  /\ orch_pc = "send_done"
  /\ sink_pc' = [sink_pc EXCEPT ![orch_i] =
                   IF @ \in {"recv", "process", "hung"} THEN "terminated" ELSE @]
  /\ NextIndex("join")
  /\ sigint' = TRUE
  /\ UNCHANGED <<ffmpeg, decoderVars, orch_rows, conns, got, partVars>>

\* The finally block of decode: decoder.join() returns when the process has exited
OrchJoin ==
  /\ orch_pc = "join"
  /\ sink_pc[orch_i] \in {"closed", "failed", "killed", "terminated"}
  /\ NextIndex("returned")
  /\ UNCHANGED <<ffmpeg, decoderVars, orch_rows, conns, sinkVars, sigint, partVars>>

\* KeyboardInterrupt in decoder.join(): it leaves decode
OrchInterruptJoin ==
  /\ orch_pc = "join"
  /\ orch_pc' = "interrupted"
  /\ sigint' = TRUE
  /\ UNCHANGED <<ffmpeg, decoderVars, orch_i, orch_rows, conns, sinkVars, partVars>>

\* A sink loop: rows = rx.recv(); on "DONE" it leaves the loop, closes its files
\* and exits
SinkRecv(i) ==
  /\ sink_pc[i] = "recv"
  /\ conns[i] # <<>>
  /\ conns' = [conns EXCEPT ![i] = Tail(@)]
  /\ IF Head(conns[i]) = DONE
       THEN /\ sink_pc' = [sink_pc EXCEPT ![i] = "closed"]
            /\ got' = got
       ELSE /\ sink_pc' = [sink_pc EXCEPT ![i] = "process"]
            /\ got' = [got EXCEPT ![i] = Append(@, Head(conns[i]))]
  /\ UNCHANGED <<ffmpeg, decoderVars, orchVars, sigint, partVars>>

\* The body of a sink loop returns: the rows are written, frame += 1
SinkProcess(i) ==
  /\ sink_pc[i] = "process"
  /\ sink_pc' = [sink_pc EXCEPT ![i] = "recv"]
  /\ UNCHANGED <<ffmpeg, decoderVars, orchVars, conns, got, sigint, partVars>>

\* An exception leaves the body of a sink loop: the process dies
SinkFails(i) ==
  /\ sink_pc[i] = "process"
  /\ sink_pc' = [sink_pc EXCEPT ![i] = "failed"]
  /\ UNCHANGED <<ffmpeg, decoderVars, orchVars, conns, got, sigint, partVars>>

\* The body of a sink loop never returns
SinkHangs(i) ==
  /\ sink_pc[i] = "process"
  /\ sink_pc' = [sink_pc EXCEPT ![i] = "hung"]
  /\ UNCHANGED <<ffmpeg, decoderVars, orchVars, conns, got, sigint, partVars>>

\* KeyboardInterrupt in a sink: in rx.recv() it is caught (`except: break`) and
\* the sink closes its files; in the loop body nothing catches it
SinkInterrupt(i) ==
  /\ sink_pc[i] \in {"recv", "process"}
  /\ sink_pc' = [sink_pc EXCEPT ![i] = IF @ = "recv" THEN "closed" ELSE "killed"]
  /\ sigint' = TRUE
  /\ UNCHANGED <<ffmpeg, decoderVars, orchVars, conns, got, partVars>>

ImageDecoder ==
  DecoderStart \/ DecoderSend \/ DecoderEndOfInput \/ DecoderInterrupt \/ DecoderSendDone

Orchestrator ==
  OrchRecv \/ OrchSend \/ OrchInterrupt \/ OrchSendDone \/ OrchTerminate \/ OrchJoin
    \/ OrchInterruptJoin

Sink(i) == SinkRecv(i) \/ SinkProcess(i) \/ SinkFails(i) \/ SinkHangs(i) \/ SinkInterrupt(i)

NextRun == ImageDecoder \/ Orchestrator \/ \E i \in Sinks : Sink(i)

SpecRun == InitRun /\ [][NextRun]_vars

(***************************************************************************)
(* Claims about a run of decode                                            *)
(***************************************************************************)

\* s is an initial part of t
IsPrefix(s, t) == Len(s) <= Len(t) /\ SubSeq(t, 1, Len(s)) = s

\* decode has returned 0
Returned == orch_pc = "returned"

\* Every sink has left its loop on "DONE" or on an interrupted recv, closed its
\* files and exited
AllClosed == \A i \in Sinks : sink_pc[i] = "closed"

C17_ShutdownCloses ==
  Returned =>
    \A i \in Sinks : sink_pc[i] \notin {"failed", "hung"} =>
                       sink_pc[i] = "closed" /\ conns[i] = <<>>

\* C18: decode returns 0 only on clean completion: when it has returned 0 the
\* image decoder has not ended with an error.
C18_FailurePropagates == Returned => decoder_pc # "failed"

\* C19: a run in which a sink worker failed does not end with exit 0.
C19_SinkFailureExit == Returned => \A i \in Sinks : sink_pc[i] # "failed"

\* C20: a sink that has stopped reading its pipe is terminated: when decode
\* waits in join() for a sink that hangs, join() can return.
C20_HungSinkTerminated ==
  (orch_pc = "join" /\ sink_pc[orch_i] = "hung") => ENABLED OrchJoin

----------------------------------------------------------------------------
(* The XDS sink: decode_xds_packets.  A packet is a list of pairs          *)
(* <<byte1, byte2>>.  describe_xds_packet is modelled by its outcome: the  *)
(* exception that leaves it ("" when it returns) and the message it        *)
(* returns, without the fields formatted from the payload.                 *)

\* twos_complement in compute_xds_packet_checksum; bitvalue & 0x7f is
\* bitvalue % 128 for the values of a byte
twos_complement(bitvalue) == IF bitvalue % 128 # 0 THEN 128 - bitvalue ELSE bitvalue

RECURSIVE xds_sum_byte1_only(_)
\* A faulty checksum that leaves out the second byte of every pair
xds_sum_byte1_only(packet_bytes) ==
  IF packet_bytes = <<>> THEN 0
  ELSE twos_complement(Head(packet_bytes)[1]) + xds_sum_byte1_only(Tail(packet_bytes))

RECURSIVE xds_sum(_)
\* sum(twos_complement(b1) + twos_complement(b2) for (b1, b2) in packet_bytes)
xds_sum(packet_bytes) ==
  IF packet_bytes = <<>> THEN 0
  ELSE twos_complement(Head(packet_bytes)[1]) + twos_complement(Head(packet_bytes)[2])
         + xds_sum(Tail(packet_bytes))

compute_xds_packet_checksum(packet_bytes) ==
  IF packet_bytes # <<>> THEN xds_sum(packet_bytes) % 128 = 0 ELSE FALSE

\* A value returned by describe_xds_packet
Returns(text) == [raised |-> "", text |-> text]

\* An exception that leaves describe_xds_packet
Raises(exception) == [raised |-> exception, text |-> ""]

\* _assert_len(xds_inputbytes, minimum) raises RuntimeWarning
assert_len_fails(xds_inputbytes, minimum) == Len(xds_inputbytes) * 2 < minimum

\* describe_xds_packet after `b1, b2 = packet_bytes.pop(0)`: rest is what is
\* left of the packet
describe_xds_type(b1, b2, rest) ==
  LET pref == IF b1 = 1 THEN "Current" ELSE "Next Program"
      could_not == Returns("Could not decode ---> XDS describes")
      \* what follows the block `if b1 <= 0x02 and b2 <= 0x03`
      by_class ==
        IF b1 = 1 /\ b2 = 4 THEN Returns("XDS Program Genre")
        ELSE IF b1 = 1 /\ b2 = 5
          THEN IF assert_len_fails(rest, 2) THEN Raises("RuntimeWarning")
               ELSE Returns("XDS Rating")
        ELSE IF b1 = 1 /\ b2 = 6
          THEN IF rest = <<>> THEN Raises("IndexError")
               ELSE Returns("XDS Audio Services")
        ELSE IF b1 = 1 /\ b2 = 7 THEN Returns("XDS Caption Services")
        ELSE IF b1 = 1 /\ b2 = 8
          THEN IF assert_len_fails(rest, 2) THEN Raises("RuntimeWarning")
               \* XDS_CGMS_APS[c1 & 7] on a list of 4
               ELSE IF Head(rest)[1] % 8 >= 4 THEN Raises("IndexError")
               ELSE Returns("XDS Copy protection")
        ELSE IF b1 = 1 /\ b2 = 9
          THEN IF assert_len_fails(rest, 2) THEN Raises("RuntimeWarning")
               ELSE Returns("XDS Aspect Ratio")
        ELSE IF b1 = 1 /\ b2 = 12 THEN Returns("Composite packet 1")
        ELSE IF b1 = 1 /\ b2 = 13 THEN Returns("Composite packet 2")
        ELSE IF b1 = 1 /\ b2 \in 16..23 THEN Returns("XDS Program description line")
        ELSE IF b1 = 5 /\ b2 = 1 THEN Returns("XDS Channel Name")
        ELSE IF b1 = 5 /\ b2 = 2 THEN Returns("XDS Channel Station Call-Sign")
        ELSE IF b1 = 5 /\ b2 = 3
          THEN IF assert_len_fails(rest, 2) THEN Raises("RuntimeWarning")
               ELSE Returns("XDS Channel Tape Delay")
        ELSE IF b1 = 5 /\ b2 = 4 THEN Returns("XDS Transmission Signal Identifier (TSID)")
        ELSE IF b1 = 7 /\ b2 = 1
          THEN IF assert_len_fails(rest, 6) THEN Raises("RuntimeWarning")
               ELSE Returns("XDS Time of day (UTC)")
        ELSE IF b1 = 7 /\ b2 = 2 THEN Returns("XDS Impulse Capture ID")
        ELSE IF b1 = 7 /\ b2 = 3 THEN Returns("XDS Supplemental Data Location")
        ELSE IF b1 = 7 /\ b2 = 4
          THEN IF assert_len_fails(rest, 2) THEN Raises("RuntimeWarning")
               ELSE Returns("XDS Local Time Zone")
        ELSE IF b1 = 7 /\ b2 = 64 THEN Returns("XDS Out-of-Band Channel Number")
        ELSE IF b1 = 7 /\ b2 = 65 THEN Returns("XDS Channel Map Pointer")
        ELSE IF b1 = 7 /\ b2 = 66 THEN Returns("XDS Channel Map Header Packet")
        ELSE IF b1 = 7 /\ b2 = 67 THEN Returns("XDS Channel Map Packet")
        ELSE IF b1 = 9 /\ b2 = 1 THEN Returns("XDS Public Service - WRSAME message")
        ELSE IF b1 = 9 /\ b2 = 2 THEN Returns("XDS Public Service - Weather")
        ELSE could_not
  IN  IF b1 <= 2 /\ b2 <= 3
        THEN IF b2 = 1
               THEN IF assert_len_fails(rest, 4) THEN Raises("RuntimeWarning")
                    ELSE Returns("XDS " \o pref \o " Scheduled Start Time")
             ELSE IF b2 = 2
               THEN IF assert_len_fails(rest, 2) THEN Raises("RuntimeWarning")
                    ELSE Returns("XDS " \o pref \o " Length of Show")
             ELSE IF b2 = 3 THEN Returns("XDS " \o pref \o " Program Name")
             ELSE by_class
        ELSE by_class

describe_xds_packet(packet_bytes) ==
  IF packet_bytes # <<>>
    THEN IF ~compute_xds_packet_checksum(packet_bytes)
           THEN Returns("XDS Rejected Packet - Incorrect Checksum")
           ELSE describe_xds_type(Head(packet_bytes)[1], Head(packet_bytes)[2],
                                  Tail(packet_bytes))
    ELSE Returns("XDS - Empty Packet")

\* The row numbers of the rows (in order) that set xds_row: the last one wins
xds_row_after(xds_row, rows) ==
  LET hits == { k \in 1..Len(rows) :
                  /\ rows[k].byte1 > 0
                  /\ rows[k].byte1 <= \h0F
                  /\ Truthy(rows[k].byte1_parity)
                  /\ Truthy(rows[k].byte2_parity) }
  IN  IF hits = {} THEN xds_row ELSE rows[MaxOf(hits)].row_num

\* The body of `if xds_row == row_num:` for one row
xds_read_row(x, row) ==
  IF row.code = None \/ (row.byte1 = 0 /\ row.byte2 = 0) THEN x
  ELSE
    LET gather == x.gather_xds_bytes \/ row.byte1 <= \h0E
        packetbuf == IF gather THEN Append(x.packetbuf, <<row.byte1, row.byte2>>)
                     ELSE x.packetbuf
        described == describe_xds_packet(packetbuf)
    IN  IF row.byte1 # \h0F
          THEN [x EXCEPT !.gather_xds_bytes = gather, !.packetbuf = packetbuf]
        ELSE IF described.raised = ""
          THEN [x EXCEPT !.gather_xds_bytes = FALSE, !.packetbuf = <<>>,
                         !.described = <<packetbuf>>,
                         !.out = Append(@, <<x.frame, described.text>>)]
        \* only KeyError is caught; any other exception leaves the loop
        ELSE IF described.raised = "KeyError"
          THEN [x EXCEPT !.gather_xds_bytes = FALSE, !.packetbuf = <<>>,
                         !.described = <<packetbuf>>]
        ELSE [x EXCEPT !.gather_xds_bytes = FALSE, !.packetbuf = packetbuf,
                       !.described = <<packetbuf>>, !.raised = described.raised]

\* One pass of the loop of decode_xds_packets on the rows of a frame
xds_pass(x0, rows) ==
  CHOOSE result \in
    { LET at == { k \in 1..Len(rows) : rows[k].row_num = x.xds_row }
      IN  IF x.xds_row = NoXdsRow \/ at = {} THEN x
          ELSE xds_read_row(x, rows[CHOOSE k \in at : \A j \in at : k <= j])
      : x \in { [x0 EXCEPT !.frame = @ + 1, !.described = <<>>,
                           !.xds_row = xds_row_after(x0.xds_row, rows)] } } : TRUE

\* Number of frames the XDS sink receives
MaxXdsFrames == 4

\* What find_and_decode_rows found on the second caption line in the runs of
\* the XDS sink: stuffing, packet starts, payload, terminators, a pair with
\* byte1 = 0, a pair whose second byte failed its parity
XdsFound ==
  { <<Row284, 0, "ok", 0, "ok">>,
    <<Row284, \h01, "ok", \h01, "ok">>,
    <<Row284, \h01, "ok", \h03, "ok">>,
    <<Row284, \h48, "ok", \h69, "ok">>,
    <<Row284, \h0F, "ok", \h3C, "ok">>,
    <<Row284, \h0F, "ok", \h6F, "ok">>,
    <<Row284, 0, "ok", \h41, "ok">>,
    <<Row284, \h01, "ok", \h08, "ok">>,
    <<Row284, \h0F, "ok", \h68, "ok">>,
    <<Row284, \h0F, "ok", \h6D, "ok">>,
    <<Row284, \h01, "ok", \h03, "bad">> }

\* What it found on the first caption line: a CC1 command, a pair that looks
\* like a packet start
XdsFoundField0 ==
  { <<Row21, \h14, "ok", \h20, "ok">>,
    <<Row21, \h01, "ok", \h03, "ok">> }

\* The lists of rows of a frame
XdsFrames ==
  { classify_rows(a \o b) :
      a \in {<<>>} \cup { <<f>> : f \in XdsFoundField0 },
      b \in {<<>>} \cup { <<f>> : f \in XdsFound } }

\* decode has started decode_xds_packets and a caption sink (factory, frame),
\* which receive the same rows
InitXds ==
  /\ xds = NewXds
  /\ xds_pre = NewXds
  /\ xds_rows = <<>>
  /\ IdleTrack
  /\ frame = 0
  /\ IdleRows
  /\ IdleDemux
  /\ IdleRun
  /\ IdleProc
  /\ IdleSync

\* decode_xds_packets receives the rows of a frame, and so does the caption sink
XdsRecv ==
  /\ xds.raised = ""
  /\ xds.frame < MaxXdsFrames
  /\ \E rows \in XdsFrames :
       /\ xds' = xds_pass(xds, rows)
       /\ xds_rows' = <<rows>>
       /\ factory' = CaptionTrackFactory_add_data(factory, rows, frame).factory
  /\ xds_pre' = xds
  /\ frame' = frame + 1
  /\ UNCHANGED <<trackVars, rowVars, received, delivered, runVars, procVars, syncVars>>

NextXds == XdsRecv

SpecXds == InitXds /\ [][NextXds]_vars

(***************************************************************************)
(* Claims about the XDS sink                                               *)
(***************************************************************************)

\* The rows of the last pass of the loop of decode_xds_packets
XdsRows == IF xds_rows = <<>> THEN <<>> ELSE xds_rows[1]

\* The lines the last pass wrote
XdsNewLines == SubSeq(xds.out, Len(xds_pre.out) + 1, Len(xds.out))

RECURSIVE ByteSum(_)
\* The plain sum of the bytes of a packet
ByteSum(packet) ==
  IF packet = <<>> THEN 0 ELSE Head(packet)[1] + Head(packet)[2] + ByteSum(Tail(packet))

RejectedText == "XDS Rejected Packet - Incorrect Checksum"

\* The last pass wrote the line of a rejected packet, and only it
WroteRejected ==
  /\ Len(XdsNewLines) = 1
  /\ XdsNewLines[1][2] = RejectedText

\* C21: a non-empty packet given to describe_xds_packet is described as
\* 'XDS Rejected Packet - Incorrect Checksum' exactly when the sum of its
\* bytes is not 0 modulo 128 (the sum of the 7 bit two's complement values
\* and the plain sum agree on that); a rejected packet is not interpreted
\* (nothing is raised) and the packet buffer is emptied.
C21_Checksum ==
  \A k \in 1..Len(xds.described) :
    LET packet == xds.described[k]
    IN  packet # <<>> =>
          /\ (xds_sum(packet) % 128 = 0) <=> (ByteSum(packet) % 128 = 0)
          /\ ByteSum(packet) % 128 # 0 =>
               WroteRejected /\ xds.raised = "" /\ xds.packetbuf = <<>>
          /\ ByteSum(packet) % 128 = 0 =>
               \A n \in 1..Len(XdsNewLines) : XdsNewLines[n][2] # RejectedText

\* The sink accepted a packet and described it, and the last pass rejected the
\* next one
C21_Witness ==
  /\ xds.described # <<>>
  /\ xds.described[1] # <<>>
  /\ WroteRejected
  /\ \E n \in 1..Len(xds_pre.out) : xds_pre.out[n][2] = "XDS Current Program Name"

\* No row of the last pass is a start pair (byte1 in 0x01..0x0E)
NoStartPair == \A k \in 1..Len(XdsRows) : XdsRows[k].byte1 \notin 1..14

\* C22: XDS framing: a pair that arrives while no packet is open and is not a
\* start pair (byte1 in 0x01..0x0E) is neither accumulated nor described, and
\* all-zero pairs change neither the packet buffer nor the gather state.
C22_Framing ==
  xds_rows # <<>> =>
    /\ (~xds_pre.gather_xds_bytes /\ NoStartPair) =>
         /\ xds.packetbuf = xds_pre.packetbuf
         /\ xds.out = xds_pre.out
    /\ (\A k \in 1..Len(XdsRows) : XdsRows[k].byte1 = 0 /\ XdsRows[k].byte2 = 0) =>
         /\ xds.packetbuf = xds_pre.packetbuf
         /\ xds.gather_xds_bytes = xds_pre.gather_xds_bytes

\* C23: after a pass that processed a terminator pair the packet buffer is
\* empty, gathering is off and exactly one line was written.
C23_TerminatorClears ==
  xds.described # <<>> =>
    /\ xds.packetbuf = <<>>
    /\ ~xds.gather_xds_bytes
    /\ Len(XdsNewLines) = 1

\* C24: a packet with a valid checksum that is too short for its type (the
\* length check of describe_xds_packet fails) is discarded and the sink keeps
\* running: no exception leaves the loop and the packet buffer is emptied.
C24_MalformedDiscarded ==
  \A k \in 1..Len(xds.described) :
    describe_xds_packet(xds.described[k]).raised = "RuntimeWarning" =>
      xds.raised = "" /\ xds.packetbuf = <<>>

\* Every row of the last pass is on a line the caption sink maps to field 0
OnlyField0Rows ==
  /\ XdsRows # <<>>
  /\ \A k \in 1..Len(XdsRows) : factory.row_to_field[XdsRows[k].row_num] = <<0>>

\* C25: a pair on a row mapped to field 0 neither enters an XDS packet nor
\* starts one: a pass whose rows are all on field 0 lines leaves the packet
\* buffer, the gather state and the output as they were.
C25_Field1Only ==
  OnlyField0Rows =>
    /\ xds.packetbuf = xds_pre.packetbuf
    /\ xds.gather_xds_bytes = xds_pre.gather_xds_bytes
    /\ xds.out = xds_pre.out

----------------------------------------------------------------------------
(* The SCC encoding: an SCC track in paint-on mode is given every pair of  *)
(* 7 bit values once.                                                      *)

\* 'CC1 Resume Direct Captioning' as extract_closed_caption_bytes sends it
ResumeDirectRow == classify_row(<<Row21, \h14, "ok", \h29, "ok">>)[1]

\* An SCC track that received Resume Direct Captioning at frame 0
InitScc ==
  /\ pre = NewTrack("scc", "CC1")
  /\ track = add_data(pre, ResumeDirectRow, 0)
  /\ last = <<ResumeDirectRow>>
  /\ frame = 1
  /\ IdleRows
  /\ IdleDemux
  /\ IdleRun
  /\ IdleProc
  /\ IdleXds
  /\ IdleSync

\* The track is given the pair (byte1, byte2), parities good, at frame 1
AddPair ==
  /\ frame = 1
  /\ \E byte1 \in 0..127, byte2 \in 0..127 :
       Deliver(classify_row(<<Row21, byte1, "ok", byte2, "ok">>)[1])

NextScc == AddPair

SpecScc == InitScc /\ [][NextScc]_vars

(***************************************************************************)
(* Claims about the SCC encoding                                           *)
(***************************************************************************)

\* The number of 1 bits of an 8 bit value
OnesOf8(byte) == OnesOf(byte % 128) + byte \div 128

\* The last add_data call wrote its pair to the caption file of the SCC track
PairWritten ==
  /\ last # <<>>
  /\ frame = 2
  /\ Len(track.out) = 1
  /\ track.out[1].kind = "scc"
  /\ track.out[1].data[Len(track.out[1].data)] = <<LastRow>>

\* C26: for every b in 0..127, NO_PARITY_TO_ODD_PARITY[b] has an odd number of
\* 1 bits and its low 7 bits are b: checked for both bytes of every pair the
\* SCC track writes.
C26_OddParity ==
  PairWritten =>
    \A b \in {LastRow.byte1, LastRow.byte2} :
      /\ OnesOf8(NO_PARITY_TO_ODD_PARITY[b + 1]) % 2 = 1
      /\ NO_PARITY_TO_ODD_PARITY[b + 1] % 128 = b

\* A pair was written whose first byte gets the parity bit and whose second
\* byte does not
C26_Witness ==
  /\ PairWritten
  /\ LastRow.byte1 = \h03
  /\ LastRow.byte2 = \h01
  /\ NO_PARITY_TO_ODD_PARITY[LastRow.byte1 + 1] = \h83
  /\ NO_PARITY_TO_ODD_PARITY[LastRow.byte2 + 1] = \h01

\* The value of a hexadecimal digit, 16 for any other character
HexValue(digit) ==
  IF \E v \in 0..15 : HexDigits[v + 1] = digit
    THEN CHOOSE v \in 0..15 : HexDigits[v + 1] = digit
    ELSE 16

\* The pairs read back from the text of an SCC event: groups of four
\* hexadecimal digits and a space, two digits a byte, parity bit stripped;
\* <<>> when the text is not made of such groups
RECURSIVE parse_scc(_)
parse_scc(text) ==
  IF text = <<>> THEN <<>>
  ELSE IF /\ Len(text) >= 5
          /\ \A k \in 1..4 : HexValue(text[k]) < 16
          /\ text[5] = " "
          /\ (Len(text) = 5 \/ parse_scc(SubSeq(text, 6, Len(text))) # <<>>)
    THEN << << (HexValue(text[1]) * 16 + HexValue(text[2])) % 128,
               (HexValue(text[3]) * 16 + HexValue(text[4])) % 128 >> >>
           \o parse_scc(SubSeq(text, 6, Len(text)))
  ELSE <<>>

\* The pairs <<byte1, byte2>> of the rows of an SCC event
PairsOf(data) == [k \in 1..Len(data) |-> <<data[k][1].byte1, data[k][1].byte2>>]

\* C27: SCC round trip: the text of every event the SCC track writes is made
\* of two fixed-width two-digit hexadecimal bytes per pair, so that reading it
\* back and stripping the parity bit gives the pairs that were written.
C27_RoundTrip ==
  \A k \in 1..Len(track.out) :
    track.out[k].kind = "scc" =>
      parse_scc(track.out[k].text) = PairsOf(track.out[k].data)

----------------------------------------------------------------------------
(* Text mode: a track of each class that received Resume Text Display is   *)
(* sent a few rows of any kind, then printable pairs until the row is full. *)

\* Number of frames in which the track is sent any row of TextFoundRows
MaxTextFrames == 4

\* Number of frames of the run; the later ones hold a printable pair
MaxFillFrames == 37

\* 'CC1 Resume Text Display' as extract_closed_caption_bytes sends it
ResumeTextRow == classify_row(<<Row21, \h14, "ok", \h2B, "ok">>)[1]

\* 'Hi', a printable pair
PrintableRow == classify_row(<<Row21, \h48, "ok", \h69, "ok">>)[1]

\* What find_and_decode_rows returns for one scanline in the text runs
TextFoundRows ==
  { <<Row21, \h48, "ok", \h69, "ok">>,     \* Hi
    <<Row21, \h14, "ok", \h2D, "ok">>,     \* Carriage Return
    <<Row21, \h14, "ok", \h5E, "ok">>,     \* Pre: Indent 28
    <<Row21, \h14, "ok", \h2A, "ok">>,     \* Text Restart
    <<Row21, \h14, "ok", \h25, "ok">> }    \* Roll-Up Captions-2 Rows

\* A track of any class that received Resume Text Display at frame 0
InitText ==
  /\ \E cls \in TrackClasses :
       /\ pre = NewTrack(cls, "CC1")
       /\ track = add_data(pre, ResumeTextRow, 0)
  /\ last = <<ResumeTextRow>>
  /\ frame = 1
  /\ IdleRows
  /\ IdleDemux
  /\ IdleRun
  /\ IdleProc
  /\ IdleXds
  /\ IdleSync

\* A row of the classifier reaches the track
AddTextData ==
  /\ frame < MaxTextFrames
  /\ \E found \in TextFoundRows : Deliver(classify_row(found)[1])

\* A printable pair reaches the track
AddPrintable ==
  /\ frame >= MaxTextFrames
  /\ frame < MaxFillFrames
  /\ Deliver(PrintableRow)

NextText == AddTextData \/ AddPrintable

SpecText == InitText /\ [][NextText]_vars

(***************************************************************************)
(* Claims about text mode                                                  *)
(***************************************************************************)

\* The last add_data call passed a pair that is not a global command to a
\* track that was, and stayed, in text mode
TextPair ==
  /\ last # <<>>
  /\ frame > 1
  /\ pre.mode = "text"
  /\ track.mode = "text"
  /\ Name(LastRow.code) \notin GlobalNames

\* The pair of the last call is one add_text flushes on: a Carriage Return on
\* an SCC track, a Carriage Return that repeats the previous code on the others
FlushingPair ==
  /\ Name(LastRow.code) = "Carriage Return"
  /\ (track.cls = "scc" \/ LastRow.code = pre.prev_code)

\* The cell the pair of the last call is written to: the indent of the code
\* for the text, SRT and HTML track, the cursor otherwise
WriteCell ==
  IF track.cls # "scc" /\ HasIndent(LastRow.code)
    THEN IndentOffset(LastRow.code)
    ELSE pre.text_cursor

\* C28: in text mode 0 <= text_cursor <= 31 at all times and the buffer keeps
\* its 32 cells; a pair that does not flush is stored at text_buffer[text_cursor]
\* (after an indent code has moved the cursor) and the cursor advances by one,
\* stopping at 31.
C28_CursorInBuffer ==
  /\ track.text_cursor \in 0..(TextBufferLen - 1)
  /\ DOMAIN track.text_buffer = 0..(TextBufferLen - 1)
  /\ (TextPair /\ ~FlushingPair) =>
       /\ WriteCell \in 0..(TextBufferLen - 1)
       /\ track.text_buffer = [pre.text_buffer EXCEPT ![WriteCell] = <<LastRow>>]
       /\ track.text_cursor =
            IF WriteCell + 1 < TextBufferLen - 1 THEN WriteCell + 1 ELSE TextBufferLen - 1

\* A pair was stored in the last cell while the cursor was already there, on
\* an SCC track that was never sent an indent
C28_Witness ==
  /\ TextPair
  /\ ~FlushingPair
  /\ track.cls = "scc"
  /\ pre.text_cursor = TextBufferLen - 1
  /\ track.text_cursor = TextBufferLen - 1
  /\ track.text_buffer[TextBufferLen - 1] = <<LastRow>>

\* The text buffer is empty and the cursor is at the first cell
TextCleared == track.text_buffer = EmptyTextBuffer /\ track.text_cursor = 0

\* C29: in text mode, for every track class, a pair empties the text buffer
\* (cursor back to 0) exactly when it is a Carriage Return and the previous code
\* was a Carriage Return too; a single Carriage Return does not flush.
C29_FlushOnSecondReturn ==
  TextPair =>
    (TextCleared <=>
       (Name(LastRow.code) = "Carriage Return" /\ LastRow.code = pre.prev_code))

(***************************************************************************)
(* Claims about the search for caption rows                                *)
(***************************************************************************)

\* The rows find_and_decode_rows found in the frame that was extracted
RowsFound == find_and_decode_rows(img, 0, SearchLines)

\* C30: for every frame, whichever scanlines match a preamble,
\* find_and_decode_rows returns at most two rows: the first row found and the
\* scanline after it, no scanline further down, whatever the index of the
\* first row.
C30_AtMostTwoRows ==
  sent # <<>> =>
    /\ Len(RowsFound) <= 2
    /\ \A k \in 1..Len(RowsFound) : RowsFound[k][1] <= RowsFound[1][1] + 1

----------------------------------------------------------------------------
(* The slicer on one scanline: every value of the 7 data bits and of the   *)
(* parity bit of byte 1, with every pattern of deviations.                 *)

\* The scanline of the slicer runs: the cells of byte 1 as given, byte 2 the
\* clean 0x69.  A data cell whose deviation is not above the threshold has
\* the deviation `quiet` ("lo" or "eq").
SlicerLine(data, parity_bit, suspects, quiet, parity_std) ==
  [ match |-> TRUE,
    bit |-> <<0, 0, 1>> \o [k \in 1..7 |-> BitOf(data, k - 1)] \o <<parity_bit>>
              \o ByteBits(\h69, TRUE),
    std |-> <<"lo", "lo", "lo">>
              \o [k \in 1..7 |-> IF BitOf(suspects, k - 1) = 1 THEN "hi" ELSE quiet]
              \o <<parity_std>> \o [k \in 1..8 |-> "lo"] ]

\* A frame whose topmost scanline carries a caption row
InitSlicer ==
  /\ \E data \in 0..127, parity_bit \in {0, 1}, suspects \in 0..127,
        quiet \in {"lo", "eq"}, parity_std \in {"lo", "eq", "hi"} :
       img = [k \in 1..SearchLines |->
                IF k = 1 THEN SlicerLine(data, parity_bit, suspects, quiet, parity_std)
                ELSE [match |-> FALSE]]
  /\ sent = <<>>
  /\ frame = 0
  /\ IdleTrack
  /\ IdleDemux
  /\ IdleRun
  /\ IdleProc
  /\ IdleXds
  /\ IdleSync

NextSlicer == ExtractRows

SpecSlicer == InitSlicer /\ [][NextSlicer]_vars

(***************************************************************************)
(* Claims about the slicer                                                 *)
(***************************************************************************)

\* The cells of byte 1 of the scanline that was sliced: data bit k (0..6), the
\* parity bit, the data cells marked suspect (deviation above 0.3) and whether
\* the parity cell is
ReceivedBit(k) == img[1].bit[START_BIT_COUNT + k + 1]

ReceivedParity == img[1].bit[START_BIT_COUNT + 8]

SuspectCells == {k \in 0..6 : img[1].std[START_BIT_COUNT + k + 1] = "hi"}

ParitySuspect == img[1].std[START_BIT_COUNT + 8] = "hi"

\* Odd parity computed over the received data bits
ComputedParity ==
  (1 + ReceivedBit(0) + ReceivedBit(1) + ReceivedBit(2) + ReceivedBit(3)
     + ReceivedBit(4) + ReceivedBit(5) + ReceivedBit(6)) % 2

\* The value of the received data bits, bit `flipped` inverted (none when -1)
ReceivedValue(flipped) ==
  LET b(k) == IF k = flipped THEN 1 - ReceivedBit(k) ELSE ReceivedBit(k)
  IN  b(0) + b(1) * 2 + b(2) * 4 + b(3) * 8 + b(4) * 16 + b(5) * 32 + b(6) * 64

\* The case the slicer corrects
Correctable ==
  /\ Cardinality(SuspectCells) = 1
  /\ ~ParitySuspect
  /\ ComputedParity # ReceivedParity

\* C31: slicer parity correction, for every 7 data bits, parity bit and suspect
\* flags: when exactly one data cell is suspect, the parity cell is not and the
\* computed odd parity disagrees with the received parity bit, the suspect bit
\* is flipped and parity is OK; in every other case no data bit is changed and
\* parity is OK iff the received parity bit equals the computed one.
C31_ParityCorrection ==
  sent # <<>> =>
    IF Correctable
      THEN decode_byte(img[1], 0)
             = <<ReceivedValue(CHOOSE k \in SuspectCells : TRUE), "ok">>
      ELSE decode_byte(img[1], 0)
             = <<ReceivedValue(-1),
                 IF ReceivedParity = ComputedParity THEN "ok" ELSE "bad">>

----------------------------------------------------------------------------
(* Rendering: an SRT track in paint-on mode writes its displayed buffer as *)
(* text after every pair.                                                  *)

\* Number of frames of a rendering run
MaxRenderFrames == 5

\* What find_and_decode_rows returns for one scanline in the rendering runs
RenderFoundRows ==
  { <<Row21, \h48, "ok", \h69, "ok">>,     \* Hi
    <<Row21, \h48, "bad", \h69, "bad">>,   \* both parities failed: two error glyphs
    <<Row21, \h48, "ok", \h69, "bad">>,    \* H and an error glyph
    <<Row21, \h48, "bad", \h69, "ok">>,    \* an error glyph and i
    <<Row21, \h17, "ok", \h21, "ok">>,     \* Tab Offset 1
    <<Row21, \h17, "ok", \h23, "ok">>,     \* Tab Offset 3
    <<Row21, \h14, "ok", \h21, "ok">>,     \* Backspace
    <<Row21, \h14, "ok", \h24, "ok">>,     \* Delete to End Of Row
    <<Row21, \h14, "ok", \h2D, "ok">> }    \* Carriage Return

\* An SRT track that received Resume Direct Captioning at frame 0
InitRender ==
  /\ pre = NewTrack("srt", "CC1")
  /\ track = add_data(pre, ResumeDirectRow, 0)
  /\ last = <<ResumeDirectRow>>
  /\ frame = 1
  /\ IdleRows
  /\ IdleDemux
  /\ IdleRun
  /\ IdleProc
  /\ IdleXds
  /\ IdleSync

\* A row of the classifier reaches the track
AddRenderData ==
  /\ frame < MaxRenderFrames
  /\ \E found \in RenderFoundRows : Deliver(classify_row(found)[1])

NextRender == AddRenderData

SpecRender == InitRender /\ [][NextRender]_vars

(***************************************************************************)
(* Claims about rendering                                                  *)
(***************************************************************************)

\* The last add_data call appended its pair to the displayed buffer and wrote
\* the buffer as an SRT entry
Rendered ==
  /\ last # <<>>
  /\ frame > 1
  /\ track.buffer_on_screen = Append(pre.buffer_on_screen, LastRow)
  /\ Len(track.out) >= 1
  /\ track.out[Len(track.out)].kind = "srt"

\* The text of the entry the last call wrote
RenderedText == track.out[Len(track.out)].text

\* What that rendering had produced when it came to the last pair of the buffer
TextBefore == get_caption_text(pre, Cells(pre.buffer_on_screen)).caption_text

\* The offset K of a Tab Offset K code, 0 for any other code
TabOffsetOf(code) ==
  IF \E k \in 1..3 : Name(code) = TabOffsetCodes[k]
    THEN CHOOSE k \in 1..3 : Name(code) = TabOffsetCodes[k]
    ELSE 0

\* The smaller of two numbers, not below 0
CappedAt(n, limit) == IF limit < 0 THEN 0 ELSE IF n < limit THEN n ELSE limit

\* C32: rendering a Tab Offset K code appends min(K, 32 - current length)
\* spaces: never more than K, and never so many that the rendered row gets
\* longer than 32 columns.
C32_TabCapped ==
  (Rendered /\ TabOffsetOf(LastRow.code) > 0) =>
    RenderedText
      = TextBefore \o [i \in 1..CappedAt(TabOffsetOf(LastRow.code), 32 - Len(TextBefore))
                         |-> " "]

\* A control code the rendering has no rule for
NoRenderingRule(row) ==
  /\ row.control
  /\ Truthy(row.byte1_parity)
  /\ Truthy(row.byte2_parity)
  /\ Len(row.code) # 3
  /\ Name(row.code) \notin {"Carriage Return", "Backspace"}
  /\ TabOffsetOf(row.code) = 0
  /\ ~HasIndent(row.code)
  /\ Name(row.code) \notin GlobalNames

\* C33: when a buffer is rendered, a control code with no rendering rule gives
\* a single space, and a run of consecutive such codes one space in all.
C33_UnknownCodeSpace ==
  (Rendered /\ NoRenderingRule(LastRow)) =>
    RenderedText =
      IF pre.buffer_on_screen # <<>>
           /\ NoRenderingRule(pre.buffer_on_screen[Len(pre.buffer_on_screen)])
        THEN TextBefore
        ELSE Append(TextBefore, " ")

\* The error glyph of CC_TABLE (0x7f)
ErrorGlyph == "U+25A0"

\* The glyphs of a pair that is no control code
GlyphsOf(row) == Tail(decode_byte_pair(FALSE, row.byte1, row.byte2, FALSE))

RECURSIVE CollapseOnto(_, _)
\* `glyphs` appended to `text`, an error glyph left out when the text ends
\* with one
CollapseOnto(text, glyphs) ==
  IF glyphs = <<>> THEN text
  ELSE IF Head(glyphs) = ErrorGlyph /\ text # <<>> /\ text[Len(text)] = ErrorGlyph
    THEN CollapseOnto(text, Tail(glyphs))
    ELSE CollapseOnto(Append(text, Head(glyphs)), Tail(glyphs))

\* C34: in rendered caption text two consecutive error glyphs collapse to one:
\* the text never holds two adjacent error glyphs, and an error glyph that
\* does not come right after another one in the same caption is kept.
C34_ErrorGlyphCollapse ==
  Rendered =>
    /\ \A k \in 1..(Len(RenderedText) - 1) :
         ~(RenderedText[k] = ErrorGlyph /\ RenderedText[k + 1] = ErrorGlyph)
    /\ ~LastRow.control => RenderedText = CollapseOnto(TextBefore, GlyphsOf(LastRow))

----------------------------------------------------------------------------
(* The search for the clock run-in: precompute_sine_templates, then        *)
(* sync_to_preamble on scanlines.  A width in pixels per cycle is the      *)
(* fraction [num, den]; the samples of the templates and the scores are    *)
(* left out, any template may score best at any offset.                    *)

\* ClosedCaptionFileDecoder.image_width
image_width == 720

CLOCK_RUN_IN_COUNT == 7

DATA_BIT_COUNT == 16

\* num_steps of precompute_sine_templates
num_steps == 5

\* round(num / den): to the nearest integer, a half to the even one
round(num, den) ==
  LET floor == num \div den
      rest == num % den
  IN  IF 2 * rest < den THEN floor
      ELSE IF 2 * rest > den THEN floor + 1
      ELSE IF floor % 2 = 0 THEN floor ELSE floor + 1

\* A faulty lower boundary, 0.03 for 0.035
min_clock_len_low(width) == round(30 * width, 1000)

\* min_clock_len = round(0.035 * image_width)
min_clock_len(width) == round(35 * width, 1000)

\* max_clock_len = round(0.041 * image_width)
max_clock_len(width) == round(41 * width, 1000)

\* steps = (max_clock_len - min_clock_len) * num_steps
steps(width) == (max_clock_len(width) - min_clock_len(width)) * num_steps

\* search_widths[i] of np.linspace(min_clock_len, max_clock_len, steps), i from 0
search_widths(width, i) ==
  [ num |-> min_clock_len(width) * (steps(width) - 1)
              + i * (max_clock_len(width) - min_clock_len(width)),
    den |-> steps(width) - 1 ]

\* The entry of the table for search_widths[i], its samples left out
template(width, i) ==
  CHOOSE result \in
    { [ pixels_per_cycle |-> pixels_per_cycle,
        max_width |-> round((CLOCK_RUN_IN_COUNT + START_BIT_COUNT + DATA_BIT_COUNT)
                              * pixels_per_cycle.num, pixels_per_cycle.den),
        run_len |-> round(CLOCK_RUN_IN_COUNT * pixels_per_cycle.num,
                          pixels_per_cycle.den) ]
      : pixels_per_cycle \in {search_widths(width, i)} } : TRUE

\* The offsets np.argmax(score) takes in these runs
Offsets == {0, 4, 5, 20, 37, 53, 69, 70}

\* image_decoder_worker is about to call precompute_sine_templates
InitSync ==
  /\ IdleSync
  /\ IdleTrack
  /\ frame = 0
  /\ IdleRows
  /\ IdleDemux
  /\ IdleRun
  /\ IdleProc
  /\ IdleXds

\* One iteration of the loop of precompute_sine_templates: the template is
\* appended, or the loop ends (break, or no width is left) and the table is
\* assigned to PRE_COMPUTED_SINE_TEMPLATES
PrecomputeTemplate ==
  /\ ~templates_done
  /\ IF \/ Len(templates) >= steps(image_width)
        \/ template(image_width, Len(templates)).max_width >= image_width
       THEN /\ templates_done' = TRUE
            /\ UNCHANGED templates
       ELSE /\ templates' = Append(templates, template(image_width, Len(templates)))
            /\ UNCHANGED templates_done
  /\ UNCHANGED <<preamble_match, trackVars, frame, rowVars, demuxVars, runVars,
                 procVars, xdsVars>>

\* sync_to_preamble on a scanline: None (a flat line, or no template whose
\* best match fits in the line), or the template that scores best, at offset
\* idx, moved by half a cycle when the phase is inverted
SyncToPreamble ==
  /\ templates_done
  /\ \/ preamble_match' = <<>>
     \/ \E best \in 1..Len(templates), idx \in Offsets, flip \in BOOLEAN :
          /\ idx + templates[best].max_width < image_width
          /\ preamble_match' =
               << [ bit_width |-> templates[best].pixels_per_cycle,
                    preamble_start |->
                      [ num |-> idx * 2 * templates[best].pixels_per_cycle.den
                                  + (IF flip THEN templates[best].pixels_per_cycle.num
                                     ELSE 0),
                        den |-> 2 * templates[best].pixels_per_cycle.den ] ] >>
  /\ UNCHANGED <<templates, templates_done, trackVars, frame, rowVars, demuxVars,
                 runVars, procVars, xdsVars>>

NextSync == PrecomputeTemplate \/ SyncToPreamble

SpecSync == InitSync /\ [][NextSync]_vars

(***************************************************************************)
(* Claims about the bit width                                              *)
(***************************************************************************)

\* lower <= num/den <= upper, the bounds given in thousandths
WithinThousandths(w, lower, upper) ==
  /\ lower * w.den <= 1000 * w.num
  /\ 1000 * w.num <= upper * w.den

\* The widths of the table and of the last match
CandidateWidths ==
  { templates[k].pixels_per_cycle : k \in 1..Len(templates) }
    \cup { preamble_match[k].bit_width : k \in 1..Len(preamble_match) }

\* C35 as stated: for W = 720 every candidate width kept in the table, and so
\* the bit_width of every match, lies in [0.035 W, 0.041 W] = [25.2, 29.52].
C35_WidthInRange ==
  \A w \in CandidateWidths : WithinThousandths(w, 35 * image_width, 41 * image_width)

\* C35: for W = 720 every candidate width kept in the table, and so the
\* bit_width of every match, lies in [round(0.035 W), round(0.041 W)] = [25, 30]
\* pixels per cycle.
C35_WidthInRoundedRange ==
  \A w \in CandidateWidths : WithinThousandths(w, 25000, 30000)

\* A scanline was matched with the narrowest template, 25 pixels per cycle
C35_Witness ==
  /\ templates_done
  /\ preamble_match # <<>>
  /\ preamble_match[1].bit_width.num = 25 * preamble_match[1].bit_width.den

(***************************************************************************)
(* Claims about the tracks, continued                                      *)
(***************************************************************************)

\* A global command both of whose parities are good
GoodGlobalCode(row) ==
  /\ Name(row.code) \in GlobalNames
  /\ Truthy(row.byte1_parity)
  /\ Truthy(row.byte2_parity)

\* C36: global control codes are consumed by the state machine and never
\* stored as caption content: after any sequence of pairs the displayed, the
\* non-displayed and the roll-up buffer of an SRT track hold no Resume Caption
\* Loading, Resume Direct Captioning, Roll-Up Captions, Resume Text Display,
\* Text Restart, End of Caption or Erase code with good parity.
C36_GlobalsNotStored ==
  track.cls = "srt" =>
    /\ \A k \in 1..Len(track.buffer_on_screen) : ~GoodGlobalCode(track.buffer_on_screen[k])
    /\ \A k \in 1..Len(track.buffer_off_screen) : ~GoodGlobalCode(track.buffer_off_screen[k])
    /\ \A k \in 1..Len(track.roll_up_buffer) : ~GoodGlobalCode(track.roll_up_buffer[k])

----------------------------------------------------------------------------
(* Routing of the rows of a sink loop (SpecDemux).                         *)

\* Row j of the m-th list received is not later than row k of the n-th
NotLater(m, j, n, k) == m < n \/ (m = n /\ j <= k)

\* The rows up to row k of the n-th list that name a channel, as <<m, j>>
ChannelRowsUpTo(n, k) ==
  { <<m, j>> \in (1..n) \X (1..2) :
      /\ j <= Len(received[m])
      /\ NotLater(m, j, n, k)
      /\ NamesChannel(m, j) }

\* The latest of a set of rows
LatestOf(S) == CHOOSE p \in S : \A q \in S : NotLater(q[1], q[2], p[1], p[2])

\* The channel a row names
ChannelAt(p) == ChannelPrefix(received[p[1]][p[2]].code)

\* The field row k of the n-th list is mapped to when it is processed: that of
\* the channel last named on its line, <<>> when none was
FieldOfRow(n, k) ==
  LET named == { p \in ChannelRowsUpTo(n, k) :
                   received[p[1]][p[2]].row_num = received[n][k].row_num }
  IN  IF named = {} THEN <<>> ELSE <<CC_CHANNEL_TO_FIELD(ChannelAt(LatestOf(named)))>>

\* The channel last named on field fld when row k of the n-th list is
\* processed, "" when none was
LastChannelOn(fld, n, k) ==
  LET named == { p \in ChannelRowsUpTo(n, k) : CC_CHANNEL_TO_FIELD(ChannelAt(p)) = fld }
  IN  IF named = {} THEN "" ELSE ChannelAt(LatestOf(named))

\* The channel of the track row k of the n-th list is due to
DueTrack(n, k) ==
  IF FieldOfRow(n, k) = <<>> THEN "" ELSE LastChannelOn(FieldOfRow(n, k)[1], n, k)

\* The add_data calls made for row k of the n-th list (a list holds one row
\* of a line at most)
CallsFor(n, k) ==
  { i \in DeliveredIn(n - 1) : delivered[i].row_num = received[n][k].row_num }

RECURSIVE FactoryAfter(_)
\* The factory after the first n lists received
FactoryAfter(n) ==
  IF n = 0 THEN NewFactory(factory.track_class)
  ELSE CaptionTrackFactory_add_data(FactoryAfter(n - 1), received[n], n - 1).factory

\* C37: a pair on a mapped row is delivered to exactly one track, that of the
\* channel whose good-parity control code was last seen on the field of the
\* row; a pair is delivered to no track while no channel was seen for it; and
\* the tracks of the other channels are left as they were.
C37_OneTrackPerPair ==
  /\ \A n \in 1..Len(received) : \A k \in 1..Len(received[n]) :
       IF DueTrack(n, k) = ""
         THEN CallsFor(n, k) = {}
         ELSE /\ Cardinality(CallsFor(n, k)) = 1
              /\ \A i \in CallsFor(n, k) : delivered[i].cc_track = DueTrack(n, k)
  /\ Len(received) > 0 =>
       \A c \in Channels :
         (\A i \in DeliveredIn(Len(received) - 1) : delivered[i].cc_track # c)
           => factory.tracks[c] = FactoryAfter(Len(received) - 1).tracks[c]

\* The pair on line 21 went to the CC2 track, the channel last seen on field
\* 0, and the CC1 track, which exists, stayed as it was
C37_Witness ==
  /\ Len(received) >= 2
  /\ factory.tracks["CC1"] # <<>>
  /\ factory.tracks["CC1"] = FactoryAfter(Len(received) - 1).tracks["CC1"]
  /\ \E i \in DeliveredIn(Len(received) - 1) :
       /\ delivered[i].row_num = Row21
       /\ delivered[i].cc_track = "CC2"
  /\ \E k \in 1..Len(received[Len(received)]) :
       /\ received[Len(received)][k].row_num = Row21
       /\ ~received[Len(received)][k].control

----------------------------------------------------------------------------
(* Frame numbers of the sinks (SpecXds).                                   *)

\* C38: all sinks number frames identically: for the k-th list of rows (k
\* from 0) the XDS sink uses the frame number k, as the caption sinks do and
\* as decode reports to the status worker.
C38_SameFrameNumber ==
  xds_rows # <<>> =>
    /\ xds.frame = frame - 1
    /\ \A i \in 1..Len(XdsNewLines) : XdsNewLines[i][1] = frame - 1

----------------------------------------------------------------------------
(* Null pairs: a track is sent global commands, printable pairs and the    *)
(* null pair (0, 0).                                                       *)

\* Number of frames of a run with null pairs
MaxNullFrames == 5

\* What find_and_decode_rows returns for one scanline in the runs with null pairs
NullFoundRows ==
  { <<Row21, 0, "ok", 0, "ok">>,           \* the null pair
    <<Row21, \h14, "ok", \h20, "ok">>,     \* Resume Caption Loading
    <<Row21, \h14, "ok", \h29, "ok">>,     \* Resume Direct Captioning
    <<Row21, \h14, "ok", \h25, "ok">>,     \* Roll-Up Captions-2 Rows
    <<Row21, \h48, "ok", \h69, "ok">> }    \* Hi

InitNull ==
  /\ \E cls \in TrackClasses : track = NewTrack(cls, "CC1")
  /\ pre = track
  /\ last = <<>>
  /\ frame = 0
  /\ factory = NewFactory("text")
  /\ received = <<>>
  /\ delivered = <<>>
  /\ IdleRows
  /\ IdleRun
  /\ IdleProc
  /\ IdleXds
  /\ IdleSync

\* One pass of the sink loop with one row for the track, which is kept in
\* `received`: track.add_data(row, frame)
AddNullData ==
  /\ frame < MaxNullFrames
  /\ \E found \in NullFoundRows :
       /\ track' = add_data(track, classify_row(found)[1], frame)
       /\ last' = classify_row(found)
       /\ received' = Append(received, classify_row(found))
  /\ pre' = track
  /\ frame' = frame + 1
  /\ UNCHANGED <<factory, delivered, rowVars, runVars, procVars, xdsVars, syncVars>>

NextNull == AddNullData

SpecNull == InitNull /\ [][NextNull]_vars

\* A null pair
IsNullPair(row) == row.byte1 = 0 /\ row.byte2 = 0

\* The last call left the track as it was and wrote nothing
TrackUnchanged == track = [pre EXCEPT !.out = <<>>]

\* The pair of the n-th call is a global command with good parities, the last
\* pair before it that is not null carried the same label
RepeatsLastLabel(n) ==
  /\ GoodGlobalCode(received[n][1])
  /\ \E m \in 1..(n - 1) :
       /\ ~IsNullPair(received[m][1])
       /\ received[m][1].code = received[n][1].code
       /\ \A j \in (m + 1)..(n - 1) : IsNullPair(received[j][1])

\* C39: a null (0, 0) pair leaves the whole state of the track unchanged,
\* prev_code included; so a global command is suppressed whenever the last
\* pair before it that is not null carried the same label, however many null
\* frames lie between the two.
C39_NullPairsTransparent ==
  last # <<>> =>
    /\ IsNullPair(LastRow) => TrackUnchanged
    /\ RepeatsLastLabel(Len(received)) => TrackUnchanged

----------------------------------------------------------------------------
(* The entries of an SRT track: one SRT track is sent pop-on captions,     *)
(* direct captions and text, and everything it writes is kept.             *)

\* Number of frames of a run that keeps the entries
MaxSrtFrames == 5

\* What find_and_decode_rows returns for one scanline in these runs
SrtFoundRows ==
  { <<Row21, \h14, "ok", \h20, "ok">>,     \* Resume Caption Loading
    <<Row21, \h14, "ok", \h29, "ok">>,     \* Resume Direct Captioning
    <<Row21, \h14, "ok", \h2A, "ok">>,     \* Text Restart
    <<Row21, \h14, "ok", \h2C, "ok">>,     \* Erase Displayed Memory
    <<Row21, \h14, "ok", \h2D, "ok">>,     \* Carriage Return
    <<Row21, \h14, "ok", \h2F, "ok">>,     \* End of Caption (flip memory)
    <<Row21, \h48, "ok", \h69, "ok">> }    \* Hi

InitSrt ==
  /\ track = NewTrack("srt", "CC1")
  /\ pre = track
  /\ last = <<>>
  /\ frame = 0
  /\ script = 0
  /\ calls = <<>>
  /\ written = <<>>
  /\ IdleRows
  /\ IdleDemux
  /\ IdleProc
  /\ IdleXds
  /\ IdleSync

\* One pass of the sink loop of decode_to_srt with one row for the track:
\* track.add_data(row, frame), then frame += 1
AddSrtData ==
  /\ frame < MaxSrtFrames
  /\ \E found \in SrtFoundRows :
       /\ track' = add_data(track, classify_row(found)[1], frame)
       /\ last' = classify_row(found)
  /\ pre' = track
  /\ frame' = frame + 1
  /\ calls' = Append(calls, frame)
  /\ written' = written \o track'.out
  /\ UNCHANGED <<script, rowVars, demuxVars, procVars, xdsVars, syncVars>>

NextSrt == AddSrtData

SpecSrt == InitSrt /\ [][NextSrt]_vars

\* The entries the track wrote to its text file
SrtTextEntries == SelectSeq(written, LAMBDA e : e.sink = "text" /\ e.kind = "srt")

\* The entries start no later than they end and are numbered 1, 2, 3, ...
WellNumbered(entries) ==
  \A i \in 1..Len(entries) :
    /\ entries[i].start_frame <= entries[i].end_frame
    /\ entries[i].count = i

\* C40: every entry the SRT sink writes has start frame <= end frame, and the
\* numbers of the entries written to one file are 1, 2, 3, ... with no gap and
\* no repeat, whatever byte pairs arrive.
C40_EntriesOrdered ==
  /\ WellNumbered(SrtEntries)
  /\ WellNumbered(SrtTextEntries)

\* Two entries were written to the caption file, the second one by the last call
C40_Witness ==
  /\ Len(SrtEntries) = 2
  /\ \E i \in 1..Len(track.out) : track.out[i].sink = "caption" /\ track.out[i].kind = "srt"
  /\ SrtEntries[2].start_frame < SrtEntries[2].end_frame

====
